---- MODULE Spec2Model ----
(***************************************************************************)
(* Order-processing event pipeline: QStash webhook consumers, signature    *)
(* verification, Redis deduplication and the checkout transaction.         *)
(*                                                                         *)
(* Receiver.verify (@upstash/qstash) is library code outside the           *)
(* repository.  It is modelled by the contract its call sites rely on: it  *)
(* rejects when the signature matches neither configured key over the raw  *)
(* body; lib/qstash-webhook.ts uses the resolved value as the parsed       *)
(* payload ("Verify and parse"), the inline consumers use it as a flag and *)
(* parse the body themselves.                                              *)
(***************************************************************************)
EXTENDS Integers, Sequences, FiniteSets, TLC

\* ---------------------------------------------------------------- bounds
MaxDeliveries == 2
InitStock == 3
MaxFaults == 1
OrderQty == 2
MaxCalls == 3
MaxInstances == 2

Slots == 1..MaxDeliveries
\* The invocation a single-request run uses: the first one.
GateSlot == CHOOSE s \in Slots : \A t \in Slots : s <= t

\* ---------------------------------------------------------------- strings
\* String.prototype.includes works on characters, so every message that the
\* consumers classify is kept as its sequence of characters.
Chars(str) ==
  CASE str = "signature" -> <<"s","i","g","n","a","t","u","r","e">>
    [] str = "QStash signing keys not configured" -> <<"Q","S","t","a","s","h"," ","s","i","g","n","i","n","g"," ","k","e","y","s"," ","n","o","t"," ","c","o","n","f","i","g","u","r","e","d">>
    [] str = "Missing upstash-signature header" -> <<"M","i","s","s","i","n","g"," ","u","p","s","t","a","s","h","-","s","i","g","n","a","t","u","r","e"," ","h","e","a","d","e","r">>
    [] str = "Invalid webhook signature" -> <<"I","n","v","a","l","i","d"," ","w","e","b","h","o","o","k"," ","s","i","g","n","a","t","u","r","e">>
    [] str = "Unexpected token '" -> <<"U","n","e","x","p","e","c","t","e","d"," ","t","o","k","e","n"," ","'">>
    [] str = " is not valid JSON" -> <<" ","i","s"," ","n","o","t"," ","v","a","l","i","d"," ","J","S","O","N">>
    [] str = "garbage" -> <<"g","a","r","b","a","g","e">>
    [] str = "undefined" -> <<"u","n","d","e","f","i","n","e","d">>
    [] str = "Cannot read properties of undefined (reading 'orderId')" -> <<"C","a","n","n","o","t"," ","r","e","a","d"," ","p","r","o","p","e","r","t","i","e","s"," ","o","f"," ","u","n","d","e","f","i","n","e","d"," ","(","r","e","a","d","i","n","g"," ","'","o","r","d","e","r","I","d","'",")">>
    [] str = "connect ECONNREFUSED 127.0.0.1:5432" -> <<"c","o","n","n","e","c","t"," ","E","C","O","N","N","R","E","F","U","S","E","D"," ","1","2","7",".","0",".","0",".","1",":","5","4","3","2">>
    [] str = "canceling statement due to lock timeout" -> <<"c","a","n","c","e","l","i","n","g"," ","s","t","a","t","e","m","e","n","t"," ","d","u","e"," ","t","o"," ","l","o","c","k"," ","t","i","m","e","o","u","t">>
    [] str = "fetch failed" -> <<"f","e","t","c","h"," ","f","a","i","l","e","d">>
    [] str = "Failed to publish event: Service Unavailable" -> <<"F","a","i","l","e","d"," ","t","o"," ","p","u","b","l","i","s","h"," ","e","v","e","n","t",":"," ","S","e","r","v","i","c","e"," ","U","n","a","v","a","i","l","a","b","l","e">>
    [] str = "Unknown event type: " -> <<"U","n","k","n","o","w","n"," ","e","v","e","n","t"," ","t","y","p","e",":"," ">>
    [] str = "Unknown template: " -> <<"U","n","k","n","o","w","n"," ","t","e","m","p","l","a","t","e",":"," ">>
    [] str = "Unknown email template: " -> <<"U","n","k","n","o","w","n"," ","e","m","a","i","l"," ","t","e","m","p","l","a","t","e",":"," ">>
    [] str = "Failed to send email to " -> <<"F","a","i","l","e","d"," ","t","o"," ","s","e","n","d"," ","e","m","a","i","l"," ","t","o"," ">>
    [] str = "command.checkout" -> <<"c","o","m","m","a","n","d",".","c","h","e","c","k","o","u","t">>
    [] str = "order.created" -> <<"o","r","d","e","r",".","c","r","e","a","t","e","d">>
    [] str = "notification.email" -> <<"n","o","t","i","f","i","c","a","t","i","o","n",".","e","m","a","i","l">>
    [] str = "notification.sms" -> <<"n","o","t","i","f","i","c","a","t","i","o","n",".","s","m","s">>
    [] str = "inventory.stock.updated" -> <<"i","n","v","e","n","t","o","r","y",".","s","t","o","c","k",".","u","p","d","a","t","e","d">>
    [] str = "analytics.audit" -> <<"a","n","a","l","y","t","i","c","s",".","a","u","d","i","t">>
    [] str = "order-confirmation" -> <<"o","r","d","e","r","-","c","o","n","f","i","r","m","a","t","i","o","n">>
    [] str = "ann@example.com" -> <<"a","n","n","@","e","x","a","m","p","l","e",".","c","o","m">>
    [] str = "bob@example.com" -> <<"b","o","b","@","e","x","a","m","p","l","e",".","c","o","m">>
    [] str = "signature-request" -> <<"s","i","g","n","a","t","u","r","e","-","r","e","q","u","e","s","t">>
    [] str = "command." -> <<"c","o","m","m","a","n","d",".">>
    [] str = "order." -> <<"o","r","d","e","r",".">>
    [] str = "notification." -> <<"n","o","t","i","f","i","c","a","t","i","o","n",".">>
    [] str = "inventory." -> <<"i","n","v","e","n","t","o","r","y",".">>
    [] str = "analytics.dlq" -> <<"a","n","a","l","y","t","i","c","s",".","d","l","q">>
    [] str = "analytics.metric" -> <<"a","n","a","l","y","t","i","c","s",".","m","e","t","r","i","c">>
    [] str = "payment.success" -> <<"p","a","y","m","e","n","t",".","s","u","c","c","e","s","s">>
    [] str = "preorder.created" -> <<"p","r","e","o","r","d","e","r",".","c","r","e","a","t","e","d">>
    [] str = "command" -> <<"c","o","m","m","a","n","d">>
    [] str = "Order.created" -> <<"O","r","d","e","r",".","c","r","e","a","t","e","d">>
    [] str = "notification" -> <<"n","o","t","i","f","i","c","a","t","i","o","n">>
    [] str = "unknown" -> <<"u","n","k","n","o","w","n">>
    [] str = "" -> <<>>

includes(s, sub) ==
  \E i \in 1..(Len(s) - Len(sub) + 1) : SubSeq(s, i, i + Len(sub) - 1) = sub

\* String.prototype.startsWith: the characters of the prefix, position by
\* position from the first.
startsWith(s, prefix) ==
  /\ Len(prefix) <= Len(s)
  /\ \A i \in 1..Len(prefix) : s[i] = prefix[i]

\* ---------------------------------------------------------------- catalog
Products == {"pA", "pB"}
Variations == {"vA1"}
Rows == Products \cup Variations
NoVariation == "none"

\* ---------------------------------------------------------------- envelopes
NoCorrelation == "none"
NoEvent == [eventId |-> "none", eventType |-> "none", correlationId |-> NoCorrelation]

Cmd1 ==
  [eventId |-> "e1", eventType |-> "command.checkout", correlationId |-> "corr1",
   payload |-> [userId |-> "u1", customerEmail |-> "ann@example.com", paymentId |-> "pay1",
                totalAmount |-> 45,
                items |-> << [productId |-> "pA", variationId |-> "vA1", quantity |-> 2, price |-> 10],
                             [productId |-> "pB", variationId |-> NoVariation, quantity |-> 1, price |-> 25] >>]]

Cmd2 ==
  [eventId |-> "e2", eventType |-> "command.checkout", correlationId |-> NoCorrelation,
   payload |-> [userId |-> "u2", customerEmail |-> "bob@example.com", paymentId |-> "pay2",
                totalAmount |-> 10,
                items |-> << [productId |-> "pA", variationId |-> NoVariation, quantity |-> 1, price |-> 10] >>]]

Ord1 ==
  [eventId |-> "e3", eventType |-> "order.created", correlationId |-> "corr1",
   payload |-> [orderId |-> 0, status |-> "PENDING"]]

Email1 ==
  [eventId |-> "e4", eventType |-> "notification.email", correlationId |-> "corr1",
   payload |-> [to |-> "ann@example.com", templateId |-> "order-confirmation"]]

Email2 ==
  [eventId |-> "e8", eventType |-> "notification.email", correlationId |-> NoCorrelation,
   payload |-> [to |-> "bob@example.com", templateId |-> "order-confirmation"]]

\* A request for a mail from a template the consumers do not have.
Email3 ==
  [eventId |-> "e9", eventType |-> "notification.email", correlationId |-> "corr1",
   payload |-> [to |-> "ann@example.com", templateId |-> "signature-request"]]

Sms1 ==
  [eventId |-> "e5", eventType |-> "notification.sms", correlationId |-> "corr1",
   payload |-> [to |-> "ann@example.com"]]

Stock1 ==
  [eventId |-> "e6", eventType |-> "inventory.stock.updated", correlationId |-> "corr1",
   payload |-> [productId |-> "pA", previousStock |-> 3, newStock |-> 1]]

Audit1 ==
  [eventId |-> "e7", eventType |-> "analytics.audit", correlationId |-> "corr1",
   payload |-> [action |-> "order.created", entityId |-> 0]]

\* randomUUID(): a value no other call returns; calls are told apart by the
\* invocation (0: the checkout API), the call site and its iteration.
randomUUID(s, site, k) == <<s, site, k>>

\* Checkout commands of different customers for the same variation of the same
\* product, OrderQty pieces each, as the checkout API publishes them: a fresh
\* eventId, and the paymentId as correlation id.
SameBodies == <<"same1", "same2", "same3", "same4">>
SameUsers == <<"w1", "w2", "w3", "w4">>
SamePayments == <<"pay_w1", "pay_w2", "pay_w3", "pay_w4">>

SameCmd(n) ==
  [eventId |-> randomUUID(0, "command.checkout", n), eventType |-> "command.checkout", source |-> "checkout-api",
   correlationId |-> SamePayments[n],
   payload |-> [userId |-> SameUsers[n], customerEmail |-> "ann@example.com",
                paymentId |-> SamePayments[n], totalAmount |-> 10 * OrderQty,
                items |-> << [productId |-> "pA", variationId |-> "vA1",
                              quantity |-> OrderQty, price |-> 10] >>]]

SameIndex(body) == CHOOSE n \in 1..Len(SameBodies) : SameBodies[n] = body

\* The payment.success events of the first Kafka design, one per customer:
\* the same payload, in an envelope without source or correlation id.
PayBodies == <<"paid1", "paid2", "paid3", "paid4">>

PaymentSuccess(n) ==
  [eventId |-> randomUUID(0, "payment.success", n), eventType |-> "payment.success",
   source |-> "none", correlationId |-> NoCorrelation, payload |-> SameCmd(n).payload]

PayIndex(body) == CHOOSE n \in 1..Len(PayBodies) : PayBodies[n] = body

\* Raw request bodies (the bytes QStash posts) and what JSON.parse makes of them.
\* Request bodies that are not JSON: the raw text is the name.
NonJsonBodies == {"garbage", "signature"}

Bodies == {"cmd1", "cmd2", "ord1", "email1", "sms1", "stock1", "audit1"} \cup NonJsonBodies

\* The message of the SyntaxError JSON.parse throws for a text that is not
\* JSON (V8): it quotes the offending first character and the text.
SyntaxErrorMessage(text) ==
  Chars("Unexpected token '") \o <<Chars(text)[1]>> \o <<"'", ",", " ", "\"">>
    \o Chars(text) \o <<"\"">> \o Chars(" is not valid JSON")

JSONparse(body) ==
  CASE body = "cmd1"   -> [ok |-> TRUE, value |-> Cmd1]
    [] body = "cmd2"   -> [ok |-> TRUE, value |-> Cmd2]
    [] body = "ord1"   -> [ok |-> TRUE, value |-> Ord1]
    [] body = "email1" -> [ok |-> TRUE, value |-> Email1]
    [] body = "sms1"   -> [ok |-> TRUE, value |-> Sms1]
    [] body = "email2" -> [ok |-> TRUE, value |-> Email2]
    [] body = "email3" -> [ok |-> TRUE, value |-> Email3]
    [] body = "stock1" -> [ok |-> TRUE, value |-> Stock1]
    [] body = "audit1" -> [ok |-> TRUE, value |-> Audit1]
    [] body \in {SameBodies[n] : n \in 1..Len(SameBodies)} ->
                          [ok |-> TRUE, value |-> SameCmd(SameIndex(body))]
    [] body \in {PayBodies[n] : n \in 1..Len(PayBodies)} ->
                          [ok |-> TRUE, value |-> PaymentSuccess(PayIndex(body))]
    [] OTHER           -> [ok |-> FALSE, failure |-> "parse",
                           message |-> SyntaxErrorMessage(body)]

\* ---------------------------------------------------------------- signatures
Unset == "unset"
SigningKeys == {"kCur", "kNext", "kOld"}
NoSignature == [key |-> "none", body |-> "none"]

\* An upstash-signature header: a token made with one key over one body.
Signatures == {NoSignature} \cup [key : SigningKeys, body : Bodies]

\* Receiver.verify({signature, body}) accepts: the token was made over this
\* body with the current or the next key.
ReceiverVerify(currentSigningKey, nextSigningKey, signature, body) ==
  /\ signature.body = body
  /\ \/ signature.key = currentSigningKey
     \/ signature.key = nextSigningKey

\* What the promise of Receiver.verify does: it resolves true for a token it
\* accepts; for any other it rejects or resolves false (Promise<boolean>; the
\* consumers that call it themselves provide for both).
ReceiverResults(currentSigningKey, nextSigningKey, signature, body) ==
  IF ReceiverVerify(currentSigningKey, nextSigningKey, signature, body)
  THEN {"true"}
  ELSE {"false", "throws"}

\* ---------------------------------------------------------------- consumers
\* Consumers that call verifyQStashSignature (lib/qstash-webhook.ts).
LibConsumers == {"commands", "orders", "notifications", "inventory", "analytics"}
\* Consumers that build their own Receiver and parse the body themselves.
InlineConsumers == {"ordersWebhook", "ordersService", "emailWebhook", "emailService",
                    "inventoryWebhook", "inventoryService", "analyticsWebhook"}
Consumers == LibConsumers \cup InlineConsumers
CheckoutConsumers == {"commands", "ordersWebhook", "ordersService"}
EmailConsumers == {"notifications", "emailWebhook", "emailService"}

\* The Kafka consumers: the orders service of the five-topic design (typed
\* consumer with the dead-letter queue enabled) and the orders service of the
\* first design (payment.success events, consumer without dead letters).
KafkaConsumers == {"kafkaOrders", "kafkaPayments"}

\* QSTASH_TOKEN is a required environment variable of the deployment.
QstashTokenSet == TRUE

Configs ==
  [currentSigningKey : {"kCur", Unset}, nextSigningKey : {"kNext", Unset},
   nodeEnv : {"development", "production"}]

Requests == [consumer : Consumers, body : Bodies, signature : Signatures]

\* The bodies a gate run posts: every raw body, each with no header, with a
\* token of each key over that body, and with a token made for another body.
OtherBody(body) == IF body = "cmd1" THEN "cmd2" ELSE "cmd1"

GateRequests ==
  {r \in Requests :
     \/ r.signature = NoSignature
     \/ r.signature.body = r.body
     \/ r.signature.key = "kCur" /\ r.signature.body = OtherBody(r.body)}

\* The webhook endpoints of the services and of the client application: the
\* consumers with a receiver of their own, and the analytics service.
ServiceEndpoints == InlineConsumers \cup {"analyticsService"}

ServiceRequests ==
  {r \in [consumer : ServiceEndpoints, body : Bodies, signature : Signatures] :
     \/ r.signature = NoSignature
     \/ r.signature.body = r.body
     \/ r.signature.key = "kCur" /\ r.signature.body = OtherBody(r.body)}

\* What QStash itself delivers to the Commands Consumer: signed commands.
PipelineRequests ==
  {r \in Requests :
     /\ r.consumer = "commands"
     /\ r.body \in {"cmd1", "cmd2"}
     /\ r.signature = [key |-> "kCur", body |-> r.body]}

VARIABLES config, stock, rowLock, orders, orderItems, published, emails, dedup, faults, inv,
          producer, instances, calls, inFlight, api

\* The state of the producer modules: the module variable `producer` of the
\* Kafka producer in each service process, the producers kafka.producer() has
\* created, and the calls in flight on a producer module.
producerVars == <<producer, instances, calls>>

vars == <<config, stock, rowLock, orders, orderItems, published, emails, dedup, faults, inv,
          producerVars, inFlight, api>>

\* ---------------------------------------------------------------- verifier
\* An error thrown by the verifier itself.
Thrown(message) == [ok |-> FALSE, failure |-> "verifier", message |-> message]

Resolved(value) == [ok |-> TRUE, value |-> value]

\* The boolean Receiver.verify resolved, used as an event (`verified as T`):
\* every property read of it gives undefined, and it has no payload.
BooleanValue ==
  [eventId |-> "undefined", eventType |-> "undefined", correlationId |-> NoCorrelation]

\* The verifier without the NODE_ENV test: keys missing, request let through.
verifyQStashSignatureOpen(cfg, body, signature, verified) ==
  IF cfg.currentSigningKey = Unset \/ cfg.nextSigningKey = Unset
  THEN JSONparse(body)
  ELSE IF signature = NoSignature
       THEN Thrown(Chars("Missing upstash-signature header"))
       ELSE IF verified = "throws"
            THEN Thrown(Chars("Invalid webhook signature"))
            ELSE Resolved(BooleanValue)

\* With both keys set the function returns what receiver.verify resolved; the
\* body is parsed (request.json()) only on the development path.
verifyQStashSignature(cfg, body, signature, verified) ==
  IF cfg.currentSigningKey = Unset \/ cfg.nextSigningKey = Unset
  THEN IF cfg.nodeEnv = "development"
       THEN JSONparse(body)
       ELSE Thrown(Chars("QStash signing keys not configured"))
  ELSE IF signature = NoSignature
       THEN Thrown(Chars("Missing upstash-signature header"))
       ELSE IF verified = "throws"
            THEN Thrown(Chars("Invalid webhook signature"))
            ELSE Resolved(BooleanValue)

\* A catch block that never asks for a retry.
CatchStatusNoRetry(message) ==
  IF includes(message, Chars("signature")) THEN 401 ELSE 400

\* catch block of the lib consumers: 401 for a message that mentions
\* 'signature', 500 (QStash retries) for everything else.
CatchStatus(message) ==
  IF includes(message, Chars("signature")) THEN 401 ELSE 500

\* Head of POST in the inline consumers, up to and including JSON.parse:
\* status 0 means the event goes on to the dispatch.
InlineGate(cfg, body, signature, verified) ==
  IF signature = NoSignature
  THEN [status |-> 401, failure |-> "verifier", event |-> NoEvent]
  ELSE IF verified # "true"
       THEN [status |-> 401, failure |-> "verifier", event |-> NoEvent]
       ELSE IF JSONparse(body).ok
            THEN [status |-> 0, failure |-> "none", event |-> JSONparse(body).value]
            ELSE [status |-> 500, failure |-> "parse", event |-> NoEvent]

LibGate(cfg, body, signature, verified) ==
  LET v == verifyQStashSignature(cfg, body, signature, verified)
  IN  IF v.ok THEN [status |-> 0, failure |-> "none", event |-> v.value]
      ELSE [status |-> CatchStatus(v.message), failure |-> v.failure, event |-> NoEvent]

\* Head of POST in the analytics service: request.json() and nothing else;
\* the upstash-signature header is not looked at.
AnalyticsServiceGate(cfg, body, signature, verified) ==
  IF JSONparse(body).ok
  THEN [status |-> 0, failure |-> "none", event |-> JSONparse(body).value]
  ELSE [status |-> 500, failure |-> "parse", event |-> NoEvent]

Gate(consumer, cfg, body, signature, verified) ==
  IF consumer \in LibConsumers THEN LibGate(cfg, body, signature, verified)
  ELSE IF consumer = "analyticsService"
  THEN AnalyticsServiceGate(cfg, body, signature, verified)
  ELSE InlineGate(cfg, body, signature, verified)

Templates == {"order-confirmation"}

\* Dispatch on event.eventType after the gate: the position the invocation
\* continues at, or "done" with the status it answers and the reason.
Dispatch(consumer, event) ==
  CASE consumer \in CheckoutConsumers /\ event.eventType = "command.checkout" ->
         [pc |-> "insertOrder", status |-> 0, failure |-> "none"]
    [] consumer = "commands" /\ event.eventType # "command.checkout" ->
         [pc |-> "done", status |-> 400, failure |-> "unknownType"]
    [] consumer = "notifications" ->
         [pc |-> "isEventProcessed", status |-> 0, failure |-> "none"]
    [] consumer = "orders" /\ "payload" \notin DOMAIN event ->
         [pc |-> "done", failure |-> "typeError",
          status |-> CatchStatus(Chars("Cannot read properties of undefined (reading 'orderId')"))]
    [] consumer \in {"emailWebhook", "emailService"} /\ event.eventType = "notification.email" ->
         IF event.payload.templateId \in Templates
         THEN [pc |-> "sendEmail", status |-> 0, failure |-> "none"]
         ELSE IF consumer = "emailWebhook"
         THEN [pc |-> "done", status |-> 200, failure |-> "none"]
         ELSE [pc |-> "done", status |-> 500, failure |-> "template"]
    [] OTHER ->
         [pc |-> "done", status |-> 200, failure |-> "none"]

\* ---------------------------------------------------------------- state
NoDelta == [r \in Rows |-> 0]

\* null in the module variable of a producer module.
Null == 0

\* A producer as kafka.producer() returns it: its connect() and disconnect()
\* have not been called, are pending, or have resolved.
NewProducer == [connect |-> "pending", disconnect |-> "none"]

\* send() works on a producer whose connect() has resolved and whose
\* disconnect() has not been called.
Usable(n) == n # Null /\ instances[n].connect = "done" /\ instances[n].disconnect = "none"

IdleInv ==
  [pc |-> "idle", consumer |-> "none", body |-> "none", signature |-> NoSignature,
   retryOf |-> 0, replay |-> FALSE, status |-> 0, failure |-> "none", duplicate |-> FALSE, idx |-> 0, previousStock |-> 0,
   sendOk |-> FALSE, txOrder |-> FALSE, txItems |-> FALSE, txDelta |-> NoDelta,
   pub |-> "none", p |-> Null]

\* The invocation has answered: only the request and the response remain
\* (status, the duplicate marker, and what made the request fail, if anything).
Respond(i, status, failure, duplicate) ==
  [IdleInv EXCEPT !.pc = "done", !.consumer = i.consumer, !.body = i.body,
                  !.signature = i.signature, !.retryOf = i.retryOf,
                  !.replay = i.replay,
                  !.status = status, !.failure = failure, !.duplicate = duplicate,
                  !.idx = IF failure = "transaction" THEN i.idx ELSE 0]

\* The event an invocation past the gate works on: the parsed request body.
\* A lib consumer with both keys set works on what receiver.verify resolved.
Event(i) ==
  IF /\ i.consumer \in LibConsumers
     /\ config.currentSigningKey # Unset
     /\ config.nextSigningKey # Unset
  THEN BooleanValue
  ELSE JSONparse(i.body).value

\* let producer: Producer | null = null in the producer module of each
\* service process; no producer created, no call made.
Callers == 1..MaxCalls
IdleCall ==
  [op |-> "none", pc |-> "idle", p |-> Null, outcome |-> "none", events |-> <<>>, next |-> 0]

InitProducer ==
  /\ producer = [m \in KafkaConsumers |-> Null]
  /\ instances = <<>>
  /\ calls = [c \in Callers |-> IdleCall]

\* No stock publish is in flight and no checkout request is being handled.
InitApi ==
  /\ inFlight = {}
  /\ api = [n \in Slots |-> "idle"]

InitCommon ==
  /\ InitProducer
  /\ InitApi
  /\ stock = [r \in Rows |-> InitStock]
  /\ rowLock = [r \in Rows |-> 0]
  /\ orders = {}
  /\ orderItems = {}
  /\ published = {}
  /\ emails = <<>>
  /\ dedup = {}
  /\ faults = 0
  /\ inv = [s \in Slots |-> IdleInv]

\* A deployment with both signing keys set, running in production.
Init ==
  /\ config = [currentSigningKey |-> "kCur", nextSigningKey |-> "kNext", nodeEnv |-> "production"]
  /\ InitCommon

\* The configuration in which verifyQStashSignature hands its consumers the
\* parsed body (request.json()): no signing keys, NODE_ENV development.  With
\* both keys set its consumers get the boolean of receiver.verify and no
\* handler of theirs runs.
DevelopmentConfig ==
  [currentSigningKey |-> Unset, nextSigningKey |-> Unset, nodeEnv |-> "development"]

InitDevelopment ==
  /\ config = DevelopmentConfig
  /\ InitCommon

\* Any configuration of keys and NODE_ENV; requests may address any consumer.
InitGate ==
  /\ config \in Configs
  /\ InitCommon

\* ---------------------------------------------------------------- POST, head
\* The deliveries QStash may be retrying when it posts request r: an earlier
\* delivery of the same message that was answered with a 5xx and has not been
\* retried yet.  0 stands for a delivery that is not a retry (the first one,
\* or a duplicate that at-least-once delivery allows).
RetryCauses(r) ==
  {0} \cup {t \in Slots : /\ inv[t].pc = "done"
                          /\ inv[t].status >= 500
                          /\ inv[t].consumer = r.consumer
                          /\ inv[t].body = r.body
                          /\ inv[t].signature = r.signature
                          /\ \A u \in Slots : inv[u].retryOf # t}

\* The message of request r has already been answered with success.
Acknowledged(r) ==
  \E t \in Slots : /\ inv[t].pc = "done"
                   /\ inv[t].status = 200
                   /\ inv[t].consumer = r.consumer
                   /\ inv[t].body = r.body

\* POST up to the first await of a handler: gate, parse and dispatch.
\* Invocations are numbered in the order in which their requests arrive.
Receive(s, r) ==
  /\ inv[s].pc = "idle"
  /\ \A t \in Slots : t < s => inv[t].pc # "idle"
  /\ \E cause \in RetryCauses(r) :
     \E verified \in ReceiverResults(config.currentSigningKey, config.nextSigningKey,
                                     r.signature, r.body) :
       LET g == Gate(r.consumer, config, r.body, r.signature, verified)
           d == Dispatch(r.consumer, g.event)
           i == [IdleInv EXCEPT !.consumer = r.consumer, !.body = r.body,
                                !.signature = r.signature, !.retryOf = cause,
                                !.replay = Acknowledged(r)]
       IN  inv' = [inv EXCEPT ![s] =
                     IF g.status # 0 THEN Respond(i, g.status, g.failure, FALSE)
                     ELSE IF d.pc = "done" THEN Respond(i, d.status, d.failure, FALSE)
                     ELSE [i EXCEPT !.pc = d.pc]]
  /\ UNCHANGED <<config, stock, rowLock, orders, orderItems, published, emails, dedup, faults, producerVars, inFlight, api>>

\* ---------------------------------------------------------------- publisher
createBaseEvent(s, k, eventType, payload, source, correlationId) ==
  [eventId |-> randomUUID(s, eventType, k), eventType |-> eventType, source |-> source,
   correlationId |-> correlationId, payload |-> payload]

\* publishEvent of the consumer's producer module: the outcomes it can have.
\* The services post to QStash themselves and skip the call without a token.
ServiceConsumers == {"ordersService", "emailService"}

PublishOutcomes(consumer) ==
  IF consumer \in ServiceConsumers /\ ~QstashTokenSet THEN {"skipped"}
  ELSE {"published", "failed"}

PublishError(consumer) ==
  IF consumer \in ServiceConsumers THEN Chars("Failed to publish event: Service Unavailable")
  ELSE Chars("fetch failed")

\* Status of the catch block of POST for an error thrown by a handler.
HandlerErrorStatus(consumer, message) ==
  IF consumer \in LibConsumers THEN CatchStatus(message) ELSE 500

\* What the wrapper around a handler does with an error the handler throws.
\* A webhook answers from the catch block of POST.  The Kafka wrappers catch
\* and log the error: the typed consumer then sends the event to the dead-letter
\* queue, the first design's consumer returns, so the offset is committed
\* (status 200 stands for eachMessage having resolved).
HandlerFailed(i, message, failure) ==
  IF i.consumer = "kafkaOrders"
  THEN [Respond(i, 0, failure, FALSE) EXCEPT !.pc = "sendToDLQ"]
  ELSE IF i.consumer = "kafkaPayments" THEN Respond(i, 200, failure, FALSE)
  ELSE Respond(i, HandlerErrorStatus(i.consumer, message), failure, FALSE)

\* ---------------------------------------------------------------- checkout
Items(i) == Event(i).payload.items

CorrelationId(event) ==
  IF event.correlationId # NoCorrelation THEN event.correlationId ELSE event.eventId

NewOrder(s, i) ==
  [id |-> randomUUID(s, "order", 0), userId |-> Event(i).payload.userId,
   customerEmail |-> Event(i).payload.customerEmail,
   totalAmount |-> Event(i).payload.totalAmount, status |-> "PENDING"]

OrderItemValues(s, i) ==
  {[id |-> randomUUID(s, "item", k), orderId |-> randomUUID(s, "order", 0),
    productId |-> Items(i)[k].productId, variationId |-> Items(i)[k].variationId,
    quantity |-> Items(i)[k].quantity, price |-> Items(i)[k].price] : k \in 1..Len(Items(i))}

\* tx.insert(orders): the row is visible to this transaction only.
InsertOrder(s) ==
  /\ inv[s].pc = "insertOrder"
  /\ inv' = [inv EXCEPT ![s].pc = "insertOrderItems", ![s].txOrder = TRUE]
  /\ UNCHANGED <<config, stock, rowLock, orders, orderItems, published, emails, dedup, faults, producerVars, inFlight, api>>

\* The first statement of the stock loop for an item.  handlePaymentSuccess
\* decrements without reading the product first.
UpdatePc(item) ==
  IF item.variationId # NoVariation THEN "updateVariation" ELSE "updateProduct"

LoopPc(i, item) ==
  IF i.consumer = "kafkaPayments" THEN UpdatePc(item) ELSE "selectProduct"

InsertOrderItems(s) ==
  /\ inv[s].pc = "insertOrderItems"
  /\ inv' = [inv EXCEPT ![s].pc = LoopPc(inv[s], Items(inv[s])[1]),
                        ![s].txItems = TRUE, ![s].idx = 1]
  /\ UNCHANGED <<config, stock, rowLock, orders, orderItems, published, emails, dedup, faults, producerVars, inFlight, api>>

\* tx.select(products): committed stock plus this transaction's own writes.
SelectProduct(s) ==
  /\ inv[s].pc = "selectProduct"
  /\ LET item == Items(inv[s])[inv[s].idx]
     IN  inv' = [inv EXCEPT
                   ![s].previousStock = stock[item.productId] - inv[s].txDelta[item.productId],
                   ![s].pc = UpdatePc(item)]
  /\ UNCHANGED <<config, stock, rowLock, orders, orderItems, published, emails, dedup, faults, producerVars, inFlight, api>>

\* The decrement issued on the connection pool instead of on tx: it takes
\* effect at once and no rollback undoes it.
UpdateRowOutsideTx(s, row, nextPc) ==
  /\ rowLock[row] = 0
  /\ stock' = [stock EXCEPT ![row] = @ - Items(inv[s])[inv[s].idx].quantity]
  /\ inv' = [inv EXCEPT ![s].pc = nextPc]
  /\ UNCHANGED <<config, rowLock, orders, orderItems, published, emails, dedup, faults, producerVars, inFlight, api>>

\* UPDATE ... SET stock = stock - qty: takes the row lock, which is held until
\* the transaction ends; a row locked by another transaction blocks.
UpdateRow(s, row, nextPc) ==
  /\ rowLock[row] \in {0, s}
  /\ rowLock' = [rowLock EXCEPT ![row] = s]
  /\ inv' = [inv EXCEPT ![s].txDelta[row] = @ + Items(inv[s])[inv[s].idx].quantity,
                        ![s].pc = nextPc]
  /\ UNCHANGED <<config, stock, orders, orderItems, published, emails, dedup, faults, producerVars, inFlight, api>>

\* A stock loop that leaves the variation's stock alone.
UpdateVariationSkipped(s) ==
  /\ inv[s].pc = "updateVariation"
  /\ inv' = [inv EXCEPT ![s].pc = "updateProduct"]
  /\ UNCHANGED <<config, stock, rowLock, orders, orderItems, published, emails, dedup, faults, producerVars, inFlight, api>>

UpdateVariation(s) ==
  /\ inv[s].pc = "updateVariation"
  /\ UpdateRow(s, Items(inv[s])[inv[s].idx].variationId, "updateProduct")

UpdateProduct(s) ==
  /\ inv[s].pc = "updateProduct"
  /\ UpdateRow(s, Items(inv[s])[inv[s].idx].productId, "publishStockUpdate")

\* The webhook a producer module posts an event kind to.
Topic(consumer, kind) ==
  IF consumer = "kafkaPayments" THEN "order-events"
  ELSE IF consumer = "kafkaOrders"
  THEN CASE kind = "order.created" -> "ecom.orders"
         [] kind = "command.checkout" -> "ecom.commands"
         [] kind = "notification.email" -> "ecom.notifications"
         [] kind = "inventory.stock.updated" -> "ecom.inventory"
         [] OTHER -> "ecom.analytics"
  ELSE IF consumer = "commands" \/ consumer = "notifications"
  THEN CASE kind = "order.created" -> "orders"
         [] kind = "command.checkout" -> "commands"
         [] kind = "notification.email" -> "notifications"
         [] kind = "inventory.stock.updated" -> "inventory"
         [] OTHER -> "analytics"
  ELSE CASE kind = "order.created" -> "orders"
         [] kind = "command.checkout" -> "orders"
         [] kind = "notification.email" -> "email"
         [] kind = "inventory.stock.updated" -> "inventory"
         [] OTHER -> "analytics"

AuditSource(consumer) ==
  CASE consumer = "ordersService" -> "orders-service"
    [] consumer = "emailService" -> "email-service"
    [] OTHER -> "api"

\* Failures injected into the run (publish, database, mail transport) are
\* counted, and MaxFaults bounds their number.
Fault(failed) ==
  /\ failed => faults < MaxFaults
  /\ faults' = IF failed THEN faults + 1 ELSE faults

Publish(consumer, outcome, event) ==
  /\ Fault(outcome = "failed")
  /\ published' = IF outcome = "published"
                  THEN published \cup {[topic |-> Topic(consumer, event.eventType), event |-> event]}
                  ELSE published

StockUpdatedEvent(s, i) ==
  LET item == Items(i)[i.idx]
  IN  createBaseEvent(s, i.idx, "inventory.stock.updated",
        [productId |-> item.productId, variationId |-> item.variationId,
         previousStock |-> i.previousStock, newStock |-> i.previousStock - item.quantity,
         reason |-> "sale", orderId |-> randomUUID(s, "order", 0)],
        "orders-service", CorrelationId(Event(i)))

\* publishStockUpdate(...).catch(log): called inside the transaction callback
\* and not awaited: the call builds the event and starts the publish, and the
\* loop goes on while the publish is in flight.
\* In the Kafka orders service the publish is publishEvent of the Kafka
\* producer, which runs up to its first await inside the call: getProducer
\* creates and assigns a producer when the module has none and awaits its
\* connect(); otherwise the send follows.
\* handlePaymentSuccess publishes nothing in the loop: for it the step only
\* closes the iteration.
PublishStockUpdate(s) ==
  /\ inv[s].pc = "publishStockUpdate"
  /\ LET m == inv[s].consumer
         creates == m = "kafkaOrders" /\ producer[m] = Null
     IN  /\ instances' = IF creates THEN Append(instances, NewProducer) ELSE instances
         /\ producer' = IF creates THEN [producer EXCEPT ![m] = Len(instances) + 1]
                        ELSE producer
         /\ inFlight' =
              IF m = "kafkaPayments" THEN inFlight
              ELSE inFlight \cup
                     {[consumer |-> m, event |-> StockUpdatedEvent(s, inv[s]),
                       pc |-> IF creates THEN "connect" ELSE "send",
                       p |-> IF creates THEN Len(instances) + 1
                             ELSE IF m = "kafkaOrders" THEN producer[m] ELSE Null]}
  /\ inv' = [inv EXCEPT ![s].pc = IF inv[s].idx < Len(Items(inv[s]))
                                  THEN LoopPc(inv[s], Items(inv[s])[inv[s].idx + 1])
                                  ELSE "commit",
                        ![s].idx = IF inv[s].idx < Len(Items(inv[s])) THEN @ + 1 ELSE @]
  /\ UNCHANGED <<config, stock, rowLock, orders, orderItems, published, emails, dedup, faults,
                 calls, api>>

\* A publish started by publishStockUpdate settles, at any later time: the
\* event is accepted, or the promise rejects and .catch logs the error.  On
\* Kafka the send throws when the producer it was handed is not usable.
StockUpdateSettles ==
  \E m \in inFlight :
    /\ m.pc = "send"
    /\ IF m.consumer \in KafkaConsumers /\ ~Usable(m.p)
       THEN UNCHANGED <<published, faults>>
       ELSE \E outcome \in PublishOutcomes(m.consumer) : Publish(m.consumer, outcome, m.event)
    /\ inFlight' = inFlight \ {m}
    /\ UNCHANGED <<config, stock, rowLock, orders, orderItems, emails, dedup, inv,
                   producerVars, api>>

\* await producer.connect() in getProducer resolves for producer n: the call
\* that created it goes on to send on what the module variable holds by then.
ProducerConnects(n) ==
  /\ n \in 1..Len(instances)
  /\ instances[n].connect = "pending"
  /\ \/ \E s \in Slots : inv[s].pub = "connect" /\ inv[s].p = n
     \/ \E m \in inFlight : m.pc = "connect" /\ m.p = n
  /\ instances' = [instances EXCEPT ![n].connect = "done"]
  /\ inv' = [s \in Slots |->
               IF inv[s].pub = "connect" /\ inv[s].p = n
               THEN [inv[s] EXCEPT !.pub = "send", !.p = producer[inv[s].consumer]]
               ELSE inv[s]]
  /\ inFlight' = {IF m.pc = "connect" /\ m.p = n
                  THEN [m EXCEPT !.pc = "send", !.p = producer[m.consumer]]
                  ELSE m : m \in inFlight}
  /\ UNCHANGED <<config, stock, rowLock, orders, orderItems, published, emails, dedup, faults,
                 producer, calls, api>>

ReleaseLocks(s) == [r \in Rows |-> IF rowLock[r] = s THEN 0 ELSE rowLock[r]]

\* A transaction that writes stock as the value it read minus the quantity
\* (read-modify-write) instead of decrementing in the UPDATE statement.
CommitReadModifyWrite(s) ==
  /\ inv[s].pc = "commit"
  /\ orders' = orders \cup {NewOrder(s, inv[s])}
  /\ orderItems' = orderItems \cup OrderItemValues(s, inv[s])
  /\ stock' = [r \in Rows |-> IF inv[s].txDelta[r] # 0
                              THEN inv[s].previousStock - inv[s].txDelta[r]
                              ELSE stock[r]]
  /\ rowLock' = ReleaseLocks(s)
  /\ inv' = [inv EXCEPT ![s].pc = "publishOrderCreated", ![s].txOrder = FALSE,
                        ![s].txItems = FALSE, ![s].txDelta = NoDelta,
                        ![s].idx = 0, ![s].previousStock = 0]
  /\ UNCHANGED <<config, published, emails, dedup, faults, producerVars, inFlight, api>>

\* The transaction callback returned: everything it wrote becomes visible.
Commit(s) ==
  /\ inv[s].pc = "commit"
  /\ orders' = orders \cup {NewOrder(s, inv[s])}
  /\ orderItems' = orderItems \cup OrderItemValues(s, inv[s])
  /\ stock' = [r \in Rows |-> stock[r] - inv[s].txDelta[r]]
  /\ rowLock' = ReleaseLocks(s)
  /\ inv' = [inv EXCEPT ![s].pc = "publishOrderCreated", ![s].txOrder = FALSE,
                        ![s].txItems = FALSE, ![s].txDelta = NoDelta,
                        ![s].idx = 0, ![s].previousStock = 0]
  /\ UNCHANGED <<config, published, emails, dedup, faults, producerVars, inFlight, api>>

TxPcs == {"insertOrder", "insertOrderItems", "selectProduct", "updateVariation",
          "updateProduct", "commit"}

DbErrors == {Chars("connect ECONNREFUSED 127.0.0.1:5432"),
             Chars("canceling statement due to lock timeout")}

\* A statement of the transaction (or the commit) throws: drizzle rolls the
\* transaction back, handleCheckoutCommand rethrows and POST answers from catch.
TransactionFails(s) ==
  /\ inv[s].pc \in TxPcs
  /\ \E message \in DbErrors :
       inv' = [inv EXCEPT ![s] =
                 HandlerFailed(inv[s], message, "transaction")]
  /\ rowLock' = ReleaseLocks(s)
  /\ Fault(TRUE)
  /\ UNCHANGED <<config, stock, orders, orderItems, published, emails, dedup, producerVars, inFlight, api>>

\* The invocation is killed between two awaits (process crash, or the
\* platform's 30 s limit): an open transaction is rolled back by the database,
\* what was committed or published stays, and QStash sees a failed delivery
\* (504) that it will retry.
Killed(s) ==
  /\ inv[s].pc \notin {"idle", "done"}
  /\ Fault(TRUE)
  /\ rowLock' = ReleaseLocks(s)
  /\ inv' = [inv EXCEPT ![s] = Respond(inv[s], 504, "killed", FALSE)]
  /\ UNCHANGED <<config, stock, orders, orderItems, published, emails, dedup, producerVars, inFlight, api>>

\* await publishEvent(topic, event) of the Kafka producer, by invocation s,
\* one await at a time: const p = await getProducer() (a producer is created,
\* assigned and connected when the module has none), then await p.send(record),
\* which throws on a producer that is not usable.  resolved and rejected are
\* what the invocation goes on as.
KafkaPublishEvent(s, event, resolved, rejected) ==
  LET m == inv[s].consumer
  IN  CASE inv[s].pub = "none" ->
             /\ IF producer[m] = Null
                THEN /\ instances' = Append(instances, NewProducer)
                     /\ producer' = [producer EXCEPT ![m] = Len(instances) + 1]
                     /\ inv' = [inv EXCEPT ![s].pub = "connect",
                                           ![s].p = Len(instances) + 1]
                ELSE /\ inv' = [inv EXCEPT ![s].pub = "send", ![s].p = producer[m]]
                     /\ UNCHANGED <<producer, instances>>
             /\ UNCHANGED <<published, faults, calls>>
        [] inv[s].pub = "send" ->
             /\ IF Usable(inv[s].p)
                THEN \E outcome \in {"published", "failed"} :
                       /\ Publish(m, outcome, event)
                       /\ inv' = [inv EXCEPT ![s] =
                                    IF outcome = "failed" THEN rejected ELSE resolved]
                ELSE /\ inv' = [inv EXCEPT ![s] = rejected]
                     /\ UNCHANGED <<published, faults>>
             /\ UNCHANGED producerVars
        [] OTHER -> FALSE

\* An awaited publish after the commit: on failure the error propagates out of
\* handleCheckoutCommand into the catch block of POST (or of the Kafka wrapper).
AwaitedPublish(s, event, nextPc) ==
  LET resolved == IF nextPc = "done" THEN Respond(inv[s], 200, "none", FALSE)
                  ELSE [inv[s] EXCEPT !.pc = nextPc, !.pub = "none", !.p = Null]
      rejected == HandlerFailed(inv[s], PublishError(inv[s].consumer), "publish")
  IN  IF inv[s].consumer \in KafkaConsumers
      THEN KafkaPublishEvent(s, event, resolved, rejected)
      ELSE /\ \E outcome \in PublishOutcomes(inv[s].consumer) :
                /\ Publish(inv[s].consumer, outcome, event)
                /\ inv' = [inv EXCEPT ![s] = IF outcome = "failed" THEN rejected ELSE resolved]
           /\ UNCHANGED producerVars

\* handlePaymentSuccess builds the order.created event itself (no source, no
\* correlation id) and publishes nothing else.
PublishOrderCreated(s) ==
  /\ inv[s].pc = "publishOrderCreated"
  /\ IF inv[s].consumer = "kafkaPayments"
     THEN AwaitedPublish(s, createBaseEvent(s, 0, "order.created",
                              [orderId |-> randomUUID(s, "order", 0), status |-> "PENDING"],
                              "none", NoCorrelation),
                         "done")
     ELSE AwaitedPublish(s, createBaseEvent(s, 0, "order.created",
                              [orderId |-> randomUUID(s, "order", 0), status |-> "PENDING"],
                              "orders-service", CorrelationId(Event(inv[s]))),
                         "publishEmailNotification")
  /\ UNCHANGED <<config, stock, rowLock, orders, orderItems, emails, dedup, inFlight, api>>

PublishEmailNotification(s) ==
  /\ inv[s].pc = "publishEmailNotification"
  /\ AwaitedPublish(s, createBaseEvent(s, 0, "notification.email",
                         [to |-> Event(inv[s]).payload.customerEmail,
                          templateId |-> "order-confirmation",
                          orderId |-> randomUUID(s, "order", 0)],
                         "orders-service", CorrelationId(Event(inv[s]))),
                    "publishAuditLog")
  /\ UNCHANGED <<config, stock, rowLock, orders, orderItems, emails, dedup, inFlight, api>>

PublishAuditLog(s) ==
  /\ inv[s].pc = "publishAuditLog"
  /\ AwaitedPublish(s, createBaseEvent(s, 0, "analytics.audit",
                         [action |-> "order.created", entityId |-> randomUUID(s, "order", 0)],
                         AuditSource(inv[s].consumer), CorrelationId(Event(inv[s]))),
                    "done")
  /\ UNCHANGED <<config, stock, rowLock, orders, orderItems, emails, dedup, inFlight, api>>

\* ---------------------------------------------------------------- deduplication
\* redis.exists / redis.setex may fail (store unreachable) on any call.
RedisOutcomes == {"ok", "unreachable"}

isEventProcessed(eventId, redis) ==
  IF redis = "ok" THEN eventId \in dedup ELSE FALSE

\* A wrapper that writes the record before it runs the processor.
IsEventProcessedMarksFirst(s) ==
  /\ inv[s].pc = "isEventProcessed"
  /\ \E redis \in RedisOutcomes :
       LET i == inv[s]
       IN  /\ inv' = [inv EXCEPT ![s] =
                 IF isEventProcessed(Event(i).eventId, redis)
                 THEN Respond(i, 200, "none", TRUE)
                 ELSE IF Event(i).eventType # "notification.email"
                 THEN Respond(i, 500, "unknownType", FALSE)
                 ELSE IF Event(i).payload.templateId \notin Templates
                 THEN Respond(i, 500, "template", FALSE)
                 ELSE [i EXCEPT !.pc = "sendEmail"]]
           /\ dedup' = IF redis = "ok" THEN dedup \cup {Event(i).eventId} ELSE dedup
  /\ UNCHANGED <<config, stock, rowLock, orders, orderItems, published, emails, faults, producerVars, inFlight, api>>

\* A wrapper that notes the duplicate but goes on to run the processor.
IsEventProcessedRunsHandler(s) ==
  /\ inv[s].pc = "isEventProcessed"
  /\ \E redis \in RedisOutcomes :
       LET i == inv[s]
       IN  inv' = [inv EXCEPT ![s] =
             IF Event(i).eventType # "notification.email"
             THEN Respond(i, 500, "unknownType", FALSE)
             ELSE IF Event(i).payload.templateId \notin Templates
             THEN Respond(i, 500, "template", FALSE)
             ELSE [i EXCEPT !.pc = "sendEmail",
                            !.duplicate = isEventProcessed(Event(i).eventId, redis)]]
  /\ UNCHANGED <<config, stock, rowLock, orders, orderItems, published, emails, dedup, faults, producerVars, inFlight, api>>

\* processWithDeduplication up to the first await of the processor: the lookup,
\* the duplicate short cut, and the switch on event.eventType with the
\* template lookup of handleEmailNotification.  The store answers with one of
\* the given outcomes.
IsEventProcessedOn(s, outcomes) ==
  /\ inv[s].pc = "isEventProcessed"
  /\ \E redis \in outcomes :
       LET i == inv[s]
       IN  inv' = [inv EXCEPT ![s] =
             IF isEventProcessed(Event(i).eventId, redis)
             THEN Respond(i, 200, "none", TRUE)
             ELSE IF Event(i).eventType # "notification.email"
             THEN Respond(i, CatchStatus(Chars("Unknown event type: ")
                                         \o Chars(Event(i).eventType)),
                          "unknownType", FALSE)
             ELSE IF Event(i).payload.templateId \notin Templates
             THEN Respond(i, CatchStatus(Chars("Unknown template: ")
                                         \o Chars(Event(i).payload.templateId)),
                          "template", FALSE)
             ELSE [i EXCEPT !.pc = "sendEmail"]]
  /\ UNCHANGED <<config, stock, rowLock, orders, orderItems, published, emails, dedup, faults, producerVars, inFlight, api>>

IsEventProcessed(s) ==
  IsEventProcessedOn(s, RedisOutcomes)

\* sendEmail / mailer.sendMail: the mail goes out or the transport fails.
\* emailService rethrows a transport failure; the other two record it.
SendEmail(s) ==
  /\ inv[s].pc = "sendEmail"
  /\ \E success \in BOOLEAN :
       /\ Fault(~success)
       /\ emails' = IF success
                    THEN Append(emails, [to |-> Event(inv[s]).payload.to,
                                         entityId |-> Event(inv[s]).eventId])
                    ELSE emails
       /\ inv' = [inv EXCEPT ![s] =
                    IF ~success /\ inv[s].consumer = "emailService"
                    THEN Respond(inv[s], 500, "email", FALSE)
                    ELSE [inv[s] EXCEPT !.pc = "emailAudit", !.sendOk = success]]
  /\ UNCHANGED <<config, stock, rowLock, orders, orderItems, published, dedup, producerVars, inFlight, api>>

EmailAuditEvent(s, i) ==
  createBaseEvent(s, 0, "analytics.audit",
    [action |-> IF i.sendOk THEN "email.sent" ELSE "email.failed", entityId |-> Event(i).eventId],
    AuditSource(i.consumer),
    IF i.consumer = "emailService" THEN CorrelationId(Event(i)) ELSE Event(i).correlationId)

\* await publishAuditLog(...) at the end of handleEmailNotification, and what
\* follows it: notifications throws when the mail was not sent.
EmailAudit(s) ==
  /\ inv[s].pc = "emailAudit"
  /\ \E outcome \in PublishOutcomes(inv[s].consumer) :
       LET i == inv[s]
       IN  /\ Publish(i.consumer, outcome, EmailAuditEvent(s, i))
           /\ inv' = [inv EXCEPT ![s] =
                IF outcome = "failed"
                THEN Respond(i, HandlerErrorStatus(i.consumer, PublishError(i.consumer)),
                             "publish", FALSE)
                ELSE IF i.consumer # "notifications" THEN Respond(i, 200, "none", FALSE)
                ELSE IF i.sendOk THEN [i EXCEPT !.pc = "markEventProcessed"]
                ELSE Respond(i, CatchStatus(Chars("Failed to send email to ")
                                            \o Chars(Event(i).payload.to)),
                             "email", FALSE)]
  /\ UNCHANGED <<config, stock, rowLock, orders, orderItems, emails, dedup, producerVars, inFlight, api>>

\* markEventProcessed that lets the error of a failing setex escape.
MarkEventProcessedThrows(s) ==
  /\ inv[s].pc = "markEventProcessed"
  /\ \E redis \in RedisOutcomes :
       /\ dedup' = IF redis = "ok" THEN dedup \cup {Event(inv[s]).eventId} ELSE dedup
       /\ inv' = [inv EXCEPT ![s] = IF redis = "ok" THEN Respond(inv[s], 200, "none", FALSE)
                                    ELSE Respond(inv[s], 500, "store", FALSE)]
  /\ UNCHANGED <<config, stock, rowLock, orders, orderItems, published, emails, faults, producerVars, inFlight, api>>

\* markEventProcessed: a failing setex is logged and ignored.
MarkEventProcessedOn(s, outcomes) ==
  /\ inv[s].pc = "markEventProcessed"
  /\ \E redis \in outcomes :
       dedup' = IF redis = "ok" THEN dedup \cup {Event(inv[s]).eventId} ELSE dedup
  /\ inv' = [inv EXCEPT ![s] = Respond(inv[s], 200, "none", FALSE)]
  /\ UNCHANGED <<config, stock, rowLock, orders, orderItems, published, emails, faults, producerVars, inFlight, api>>

MarkEventProcessed(s) ==
  MarkEventProcessedOn(s, RedisOutcomes)

\* ---------------------------------------------------------------- checkout API
\* checkStockForItem: the stock of the variation when the item names one, of
\* the product otherwise, must cover the quantity.
checkStockForItem(item) ==
  LET stockToCheck == IF item.variationId # NoVariation THEN stock[item.variationId]
                      ELSE stock[item.productId]
  IN  ~(stockToCheck < item.quantity)

validateStockAndCalculateTotal(items) ==
  \A k \in 1..Len(items) : checkStockForItem(items[k])

\* The command of customer n has been published to the orders webhook.
CommandPublished(n) ==
  [topic |-> "orders", event |-> SameCmd(n)] \in published

\* handlePost of the checkout API for the cart of customer n, up to the await
\* of processPayment: the products are read and the stock is validated
\* against what is committed.  A cart that fails validation is answered 400
\* and changes nothing, as do the answers 401, 400, 404 and 402 for a request
\* without session, address, items, known products or payment.
Checkout(n) ==
  /\ api[n] = "idle"
  /\ ~CommandPublished(n)
  /\ validateStockAndCalculateTotal(SameCmd(n).payload.items)
  /\ api' = [api EXCEPT ![n] = "processPayment"]
  /\ UNCHANGED <<config, stock, rowLock, orders, orderItems, published, emails, dedup, faults,
                 inv, producerVars, inFlight>>

\* handlePost after the (mock) payment has succeeded: await
\* publishCheckoutCommand; a failed publish is answered 500 and the customer
\* may check out again.
PublishCheckoutCommand(n) ==
  /\ api[n] = "processPayment"
  /\ \E outcome \in {"published", "failed"} :
       /\ Publish("checkoutApi", outcome, SameCmd(n))
       /\ api' = [api EXCEPT ![n] = IF outcome = "published" THEN "done" ELSE "idle"]
  /\ UNCHANGED <<config, stock, rowLock, orders, orderItems, emails, dedup, inv,
                 producerVars, inFlight>>

\* The request QStash posts to a consumer for a body: signed with the current key.
SignedRequest(consumer, body) ==
  [consumer |-> consumer, body |-> body, signature |-> [key |-> "kCur", body |-> body]]

\* A first delivery of a message: no invocation has received its body.
ReceiveOnce(s, r) ==
  /\ \A t \in Slots : inv[t].body # r.body
  /\ Receive(s, r)

\* QStash delivers a published command to the orders webhook.
DeliverCommand(s, n) ==
  /\ CommandPublished(n)
  /\ ReceiveOnce(s, SignedRequest("ordersWebhook", SameBodies[n]))

\* ---------------------------------------------------------------- topic router
\* TOPICS of the two QStash producers: logical names in lib/qstash.ts, webhook
\* routes in services/shared/qstash.ts, where commands go to the orders webhook.
Producers == {"lib", "shared"}

TOPICS(qstashModule) ==
  IF qstashModule = "lib"
  THEN [COMMANDS |-> "commands", ORDERS |-> "orders", NOTIFICATIONS |-> "notifications",
        INVENTORY |-> "inventory", ANALYTICS |-> "analytics"]
  ELSE [COMMANDS |-> "orders", ORDERS |-> "orders", NOTIFICATIONS |-> "email",
        INVENTORY |-> "inventory", ANALYTICS |-> "analytics"]

\* A router that looks for the domain anywhere in the type.
getTopicForEventAnywhere(qstashModule, eventType) ==
  IF includes(Chars(eventType), Chars("command.")) THEN TOPICS(qstashModule).COMMANDS
  ELSE IF includes(Chars(eventType), Chars("order.")) THEN TOPICS(qstashModule).ORDERS
  ELSE IF includes(Chars(eventType), Chars("notification.")) THEN TOPICS(qstashModule).NOTIFICATIONS
  ELSE IF includes(Chars(eventType), Chars("inventory.")) THEN TOPICS(qstashModule).INVENTORY
  ELSE TOPICS(qstashModule).ANALYTICS

getTopicForEvent(qstashModule, eventType) ==
  IF startsWith(Chars(eventType), Chars("command.")) THEN TOPICS(qstashModule).COMMANDS
  ELSE IF startsWith(Chars(eventType), Chars("order.")) THEN TOPICS(qstashModule).ORDERS
  ELSE IF startsWith(Chars(eventType), Chars("notification.")) THEN TOPICS(qstashModule).NOTIFICATIONS
  ELSE IF startsWith(Chars(eventType), Chars("inventory.")) THEN TOPICS(qstashModule).INVENTORY
  ELSE TOPICS(qstashModule).ANALYTICS

\* Event types handed to the router: the ones the system publishes, types of
\* no domain, and types that only resemble a domain prefix.
RoutedTypes ==
  {"command.checkout", "order.created", "notification.email", "notification.sms",
   "inventory.stock.updated", "analytics.audit", "analytics.dlq", "analytics.metric",
   "payment.success", "preorder.created", "command", "Order.created", "notification",
   "unknown", ""}

\* The number of events a run hands to publishAutoRoute.
MaxRouted == 2

RoutedEvent(qstashModule, eventType) ==
  [eventId |-> randomUUID(0, eventType, 0), eventType |-> eventType, source |-> qstashModule,
   correlationId |-> NoCorrelation, payload |-> [entityId |-> 0]]

\* publishAutoRoute: the event is published to the topic the router names.
PublishAutoRoute(eventType, qstashModule) ==
  /\ Cardinality(published) < MaxRouted
  /\ \E outcome \in {"published", "failed"} :
       /\ Fault(outcome = "failed")
       /\ published' = IF outcome = "published"
                       THEN published \cup {[topic |-> getTopicForEvent(qstashModule, eventType),
                                             event |-> RoutedEvent(qstashModule, eventType)]}
                       ELSE published
  /\ UNCHANGED <<config, stock, rowLock, orders, orderItems, emails, dedup, inv, producerVars, inFlight, api>>

\* ---------------------------------------------------------------- batch publish
\* An option the caller left out.
Undefined == -1

\* Retry counts and delays (seconds) a caller may ask for.
RetryOptions == {Undefined, 0, 5}
DelayOptions == {Undefined, 0, 60}

\* The retry count publishEvent uses when the caller names none.
DefaultRetries == 3

BatchTypes == {"order.created", "analytics.audit"}

\* A message with the options its caller configured for it.
Configured == [eventType : BatchTypes, retries : RetryOptions, delay : DelayOptions]

\* The largest batch a run hands to publishEvents.
MaxBatch == 2

RECURSIVE SeqsUpTo(_, _)
SeqsUpTo(S, n) ==
  IF n = 0 THEN {<<>>}
  ELSE SeqsUpTo(S, n - 1) \cup {Append(q, x) : q \in SeqsUpTo(S, n - 1), x \in S}

Batches == SeqsUpTo(Configured, MaxBatch) \ {<<>>}

\* JSON.stringify(value): the JSON text of a value, a string and not the
\* value; JSON.parse of the text gives the value back.
JSONstringify(value) == [json |-> value]

\* What qstash.publishJSON / batchJSON of a producer module is handed for the
\* index-th message of a call: the body, the retry count and the delay, next
\* to the event and to what the caller had configured for it.
QstashMessage(qstashModule, via, c, index, body, retries, delay) ==
  [topic |-> TOPICS(qstashModule).ORDERS, event |-> RoutedEvent(qstashModule, c.eventType),
   body |-> body, via |-> via, index |-> index,
   configured |-> [retries |-> c.retries, delay |-> c.delay],
   retries |-> retries, delay |-> delay]

\* publishEvent(topic, event, options): body: event,
\* retries: options?.retries ?? 3, delay: options?.delay.
PublishEventMessage(c) ==
  QstashMessage("lib", "single", c, 1, RoutedEvent("lib", c.eventType),
                IF c.retries = Undefined THEN DefaultRetries ELSE c.retries, c.delay)

\* The k-th element of the array publishEvents builds, for the k-th entry of
\* the batch: body: JSON.stringify(event), retries: 3, delay: the entry's delay.
PublishEventsMessage(c, k) ==
  QstashMessage("lib", "batch", c, k, JSONstringify(RoutedEvent("lib", c.eventType)),
                DefaultRetries, c.delay)

\* What publishEvent of services/shared hands publishJSON for the k-th entry
\* of a batch: body: event, and neither retries nor delay.
SharedPublishEventMessage(c, k) ==
  QstashMessage("services", "serial", c, k, RoutedEvent("services", c.eventType),
                Undefined, Undefined)

\* The batches publishEvents of services/shared takes: entries of an event
\* (and a key), without options.
SharedBatches ==
  {events \in Batches :
     \A k \in 1..Len(events) : events[k].retries = Undefined /\ events[k].delay = Undefined}

\* The call that publishes a batch through services/shared.
BatchCall == 1

PublishEventWithOptions(c) ==
  /\ published = {}
  /\ \E outcome \in {"published", "failed"} :
       /\ Fault(outcome = "failed")
       /\ published' = IF outcome = "published" THEN {PublishEventMessage(c)} ELSE published
  /\ UNCHANGED <<config, stock, rowLock, orders, orderItems, emails, dedup, inv, producerVars, inFlight, api>>

\* publishEvents: one batchJSON call with the whole array; when it throws
\* nothing of the batch is published.
PublishEvents(events) ==
  /\ published = {}
  /\ \E outcome \in {"published", "failed"} :
       /\ Fault(outcome = "failed")
       /\ published' = IF outcome = "published"
                       THEN {PublishEventsMessage(events[k], k) : k \in 1..Len(events)}
                       ELSE published
  /\ UNCHANGED <<config, stock, rowLock, orders, orderItems, emails, dedup, inv, producerVars, inFlight, api>>

\* publishEvents of services/shared up to its first await: the loop hands the
\* first entry to publishEvent, whose publishJSON is awaited.
SharedPublishEvents(events) ==
  /\ published = {}
  /\ calls[BatchCall].pc = "idle"
  /\ calls' = [calls EXCEPT ![BatchCall] =
                 [IdleCall EXCEPT !.op = "publishEvents", !.pc = "publishJSON",
                                  !.events = events, !.next = 1]]
  /\ UNCHANGED <<config, stock, rowLock, orders, orderItems, published, emails, dedup, faults,
                 inv, producer, instances, inFlight, api>>

\* The awaited publishJSON of the loop settles: the entry is published and the
\* loop goes on to the next one, or publishEvent rethrows and publishEvents
\* rejects with the entries before it published.
PublishJSONSettles ==
  LET call == calls[BatchCall]
  IN  /\ call.pc = "publishJSON"
      /\ \E outcome \in {"published", "failed"} :
           /\ Fault(outcome = "failed")
           /\ published' =
                IF outcome = "published"
                THEN published \cup {SharedPublishEventMessage(call.events[call.next], call.next)}
                ELSE published
           /\ calls' = [calls EXCEPT ![BatchCall] =
                          IF outcome = "failed"
                          THEN [call EXCEPT !.pc = "returned", !.outcome = "failed"]
                          ELSE IF call.next < Len(call.events)
                          THEN [call EXCEPT !.next = @ + 1]
                          ELSE [call EXCEPT !.pc = "returned", !.outcome = "sent"]]
      /\ UNCHANGED <<config, stock, rowLock, orders, orderItems, emails, dedup, inv,
                     producer, instances, inFlight, api>>

\* ---------------------------------------------------------------- Kafka consumers
\* The messages on the topics the two orders services read, and a message
\* that is not JSON.
KafkaMessages ==
  {SameBodies[n] : n \in Slots} \cup {PayBodies[n] : n \in Slots} \cup {"garbage"}

\* The eventType header the producer sets from the event; a message that is
\* not an event has none.
HeaderEventType(body) ==
  IF JSONparse(body).ok THEN JSONparse(body).value.eventType ELSE "none"

\* eachMessage up to the first await of the handler.  The typed consumer
\* skips messages of other event types and messages that do not parse.  The
\* first design's handler parses the value itself (a SyntaxError is caught and
\* logged by the wrapper) and ignores events that are not payment.success.
\* Messages of a partition are handled one after the other; kafkajs redelivers
\* a message whose eachMessage rejected.
EachMessage(s, consumer, body) ==
  /\ inv[s].pc = "idle"
  /\ \A t \in Slots : t < s => inv[t].pc = "done"
  /\ \E cause \in RetryCauses([consumer |-> consumer, body |-> body, signature |-> NoSignature]) :
       LET i == [IdleInv EXCEPT !.consumer = consumer, !.body = body, !.retryOf = cause]
           wanted == IF consumer = "kafkaOrders" THEN "command.checkout" ELSE "payment.success"
       IN  inv' = [inv EXCEPT ![s] =
                     IF consumer = "kafkaOrders" /\ HeaderEventType(body) # wanted
                     THEN Respond(i, 200, "none", FALSE)
                     ELSE IF ~JSONparse(body).ok THEN Respond(i, 200, "parse", FALSE)
                     ELSE IF JSONparse(body).value.eventType # wanted
                     THEN Respond(i, 200, "none", FALSE)
                     ELSE [i EXCEPT !.pc = "insertOrder"]]
  /\ UNCHANGED <<config, stock, rowLock, orders, orderItems, published, emails, dedup, faults, producerVars, inFlight, api>>

\* The dead-letter event sendToDLQ builds for the event of an invocation.
DlqEvent(s, i) ==
  [eventId |-> randomUUID(s, "analytics.dlq", 0), eventType |-> "analytics.dlq",
   source |-> "consumer-dlq", correlationId |-> NoCorrelation,
   payload |-> [originalTopic |-> "ecom.commands",
                originalEventType |-> HeaderEventType(i.body),
                originalEvent |-> Event(i), error |-> i.failure, retryCount |-> 0]]

\* The catch block of the typed consumer with enableDLQ: the event is published
\* to the analytics topic and eachMessage resolves.  When that publish fails the
\* error leaves eachMessage (status 500) and kafkajs redelivers the message.
SendToDLQ(s) ==
  /\ inv[s].pc = "sendToDLQ"
  /\ KafkaPublishEvent(s, DlqEvent(s, inv[s]),
                       Respond(inv[s], 200, inv[s].failure, FALSE),
                       Respond(inv[s], 500, inv[s].failure, FALSE))
  /\ UNCHANGED <<config, stock, rowLock, orders, orderItems, emails, dedup, inFlight, api>>

\* ---------------------------------------------------------------- specifications
\* The checkout pipeline: QStash delivers signed commands to the Commands
\* Consumer, several of them concurrently, each possibly more than once.  The
\* consumer runs in the configuration in which it gets the parsed command.
Next ==
  \/ \E s \in Slots : \E r \in PipelineRequests : Receive(s, r)
  \/ \E s \in Slots : InsertOrder(s)
  \/ \E s \in Slots : InsertOrderItems(s)
  \/ \E s \in Slots : SelectProduct(s)
  \/ \E s \in Slots : UpdateVariation(s)
  \/ \E s \in Slots : UpdateProduct(s)
  \/ \E s \in Slots : PublishStockUpdate(s)
  \/ StockUpdateSettles
  \/ \E s \in Slots : Commit(s)
  \/ \E s \in Slots : TransactionFails(s)
  \/ \E s \in Slots : PublishOrderCreated(s)
  \/ \E s \in Slots : PublishEmailNotification(s)
  \/ \E s \in Slots : PublishAuditLog(s)

Spec == InitDevelopment /\ [][Next]_vars

\* One request, of any shape, to any consumer under any configuration.
NextGate ==
  \/ \E r \in GateRequests : Receive(GateSlot, r)
  \/ InsertOrder(GateSlot)
  \/ InsertOrderItems(GateSlot)
  \/ SelectProduct(GateSlot)
  \/ UpdateVariation(GateSlot)
  \/ UpdateProduct(GateSlot)
  \/ PublishStockUpdate(GateSlot)
  \/ StockUpdateSettles
  \/ Commit(GateSlot)
  \/ TransactionFails(GateSlot)
  \/ PublishOrderCreated(GateSlot)
  \/ PublishEmailNotification(GateSlot)
  \/ PublishAuditLog(GateSlot)
  \/ IsEventProcessed(GateSlot)
  \/ SendEmail(GateSlot)
  \/ EmailAudit(GateSlot)
  \/ MarkEventProcessed(GateSlot)

SpecGate == InitGate /\ [][NextGate]_vars

\* One request, of any shape, to the webhook of any service under any
\* configuration.
NextServices ==
  \/ \E r \in ServiceRequests : Receive(GateSlot, r)
  \/ InsertOrder(GateSlot)
  \/ InsertOrderItems(GateSlot)
  \/ SelectProduct(GateSlot)
  \/ UpdateVariation(GateSlot)
  \/ UpdateProduct(GateSlot)
  \/ PublishStockUpdate(GateSlot)
  \/ StockUpdateSettles
  \/ Commit(GateSlot)
  \/ TransactionFails(GateSlot)
  \/ PublishOrderCreated(GateSlot)
  \/ PublishEmailNotification(GateSlot)
  \/ PublishAuditLog(GateSlot)
  \/ SendEmail(GateSlot)
  \/ EmailAudit(GateSlot)

SpecServices == InitGate /\ [][NextServices]_vars

\* What QStash delivers to the Notifications consumer: signed envelopes of the
\* notifications topic, each possibly more than once.
NotifyRequests ==
  {SignedRequest("notifications", body) : body \in {"email1", "sms1"}}

NextNotify ==
  \/ \E s \in Slots : \E r \in NotifyRequests : Receive(s, r)
  \/ \E s \in Slots : IsEventProcessed(s)
  \/ \E s \in Slots : SendEmail(s)
  \/ \E s \in Slots : EmailAudit(s)
  \/ \E s \in Slots : MarkEventProcessed(s)

SpecNotify == InitDevelopment /\ [][NextNotify]_vars

\* The Notifications consumer with the idempotency store available on every
\* call and nothing else failing: deliveries of the same envelopes, handled
\* concurrently.
InitNoFaults ==
  /\ config = DevelopmentConfig
  /\ stock = [r \in Rows |-> InitStock]
  /\ rowLock = [r \in Rows |-> 0]
  /\ orders = {}
  /\ orderItems = {}
  /\ published = {}
  /\ emails = <<>>
  /\ dedup = {}
  /\ faults = MaxFaults
  /\ inv = [s \in Slots |-> IdleInv]
  /\ InitProducer
  /\ InitApi

StoreAvailable == {"ok"}

DedupRequests == NotifyRequests \cup {SignedRequest("notifications", "email2")}

NextDedup ==
  \/ \E s \in Slots : \E r \in DedupRequests : Receive(s, r)
  \/ \E s \in Slots : IsEventProcessedOn(s, StoreAvailable)
  \/ \E s \in Slots : SendEmail(s)
  \/ \E s \in Slots : EmailAudit(s)
  \/ \E s \in Slots : MarkEventProcessedOn(s, StoreAvailable)

SpecDedup == InitNoFaults /\ [][NextDedup]_vars

\* The Notifications consumer with the store available, handling one delivery
\* at a time; the mail transport and the audit publish may fail and QStash
\* redelivers.
ReceiveNext(s, r) ==
  /\ \A t \in Slots : t < s => inv[t].pc = "done"
  /\ Receive(s, r)

NextNotifySerial ==
  \/ \E s \in Slots : \E r \in DedupRequests : ReceiveNext(s, r)
  \/ \E s \in Slots : IsEventProcessedOn(s, StoreAvailable)
  \/ \E s \in Slots : SendEmail(s)
  \/ \E s \in Slots : EmailAudit(s)
  \/ \E s \in Slots : MarkEventProcessedOn(s, StoreAvailable)

SpecNotifySerial == InitDevelopment /\ [][NextNotifySerial]_vars

\* The Notifications consumer receiving, next to the envelopes above, a signed
\* request for a template it does not have.
ClassifyRequests == DedupRequests \cup {SignedRequest("notifications", "email3")}

NextClassify ==
  \/ \E s \in Slots : \E r \in ClassifyRequests : Receive(s, r)
  \/ \E s \in Slots : IsEventProcessed(s)
  \/ \E s \in Slots : SendEmail(s)
  \/ \E s \in Slots : EmailAudit(s)
  \/ \E s \in Slots : MarkEventProcessed(s)

SpecClassify == InitDevelopment /\ [][NextClassify]_vars

\* The checkout pipeline with invocations that may be killed mid-flight.
NextCrash ==
  \/ Next
  \/ \E s \in Slots : Killed(s)

SpecCrash == InitDevelopment /\ [][NextCrash]_vars

\* Checkout requests of several customers for the same product, validated by
\* the checkout API, and the orders webhook processing each command once.
NextCheckout ==
  \/ \E n \in Slots : Checkout(n)
  \/ \E n \in Slots : PublishCheckoutCommand(n)
  \/ \E s \in Slots : \E n \in Slots : DeliverCommand(s, n)
  \/ \E s \in Slots : InsertOrder(s)
  \/ \E s \in Slots : InsertOrderItems(s)
  \/ \E s \in Slots : SelectProduct(s)
  \/ \E s \in Slots : UpdateVariation(s)
  \/ \E s \in Slots : UpdateProduct(s)
  \/ \E s \in Slots : PublishStockUpdate(s)
  \/ StockUpdateSettles
  \/ \E s \in Slots : Commit(s)
  \/ \E s \in Slots : TransactionFails(s)
  \/ \E s \in Slots : PublishOrderCreated(s)
  \/ \E s \in Slots : PublishEmailNotification(s)
  \/ \E s \in Slots : PublishAuditLog(s)

SpecCheckout == Init /\ [][NextCheckout]_vars

\* MaxDeliveries commands for the same product, OrderQty pieces each, with
\* exactly the stock they need; nothing fails, every command is delivered once
\* and the invocations run concurrently.
InitConcurrent ==
  /\ config = DevelopmentConfig
  /\ stock = [r \in Rows |-> IF r \in {"pA", "vA1"} THEN MaxDeliveries * OrderQty ELSE InitStock]
  /\ rowLock = [r \in Rows |-> 0]
  /\ orders = {}
  /\ orderItems = {}
  /\ published = {}
  /\ emails = <<>>
  /\ dedup = {}
  /\ faults = MaxFaults
  /\ inv = [s \in Slots |-> IdleInv]
  /\ InitProducer
  /\ InitApi

NextConcurrent ==
  \/ \E s \in Slots : \E n \in Slots :
       ReceiveOnce(s, SignedRequest("commands", SameBodies[n]))
  \/ \E s \in Slots : InsertOrder(s)
  \/ \E s \in Slots : InsertOrderItems(s)
  \/ \E s \in Slots : SelectProduct(s)
  \/ \E s \in Slots : UpdateVariation(s)
  \/ \E s \in Slots : UpdateProduct(s)
  \/ \E s \in Slots : PublishStockUpdate(s)
  \/ StockUpdateSettles
  \/ \E s \in Slots : Commit(s)
  \/ \E s \in Slots : PublishOrderCreated(s)
  \/ \E s \in Slots : PublishEmailNotification(s)
  \/ \E s \in Slots : PublishAuditLog(s)

SpecConcurrent == InitConcurrent /\ [][NextConcurrent]_vars

\* One publish of messages with any configuration: single, batched through
\* lib/qstash-producer, or entry by entry through services/shared.
NextBatch ==
  \/ \E c \in Configured : PublishEventWithOptions(c)
  \/ \E events \in Batches : PublishEvents(events)
  \/ \E events \in SharedBatches : SharedPublishEvents(events)
  \/ PublishJSONSettles

SpecBatch == Init /\ [][NextBatch]_vars

\* Events of any type handed to publishAutoRoute of either producer.
NextRoute ==
  \E eventType \in RoutedTypes : \E qstashModule \in Producers :
    PublishAutoRoute(eventType, qstashModule)

SpecRoute == Init /\ [][NextRoute]_vars

\* The orders services on Kafka: the typed consumer of ecom.commands and the
\* first design's consumer of payment-events, each handling its messages one
\* at a time and
\* publishing through the Kafka producer of its own process.
NextKafka ==
  \/ \E s \in Slots : \E consumer \in KafkaConsumers : \E body \in KafkaMessages :
       EachMessage(s, consumer, body)
  \/ \E s \in Slots : InsertOrder(s)
  \/ \E s \in Slots : InsertOrderItems(s)
  \/ \E s \in Slots : SelectProduct(s)
  \/ \E s \in Slots : UpdateVariation(s)
  \/ \E s \in Slots : UpdateProduct(s)
  \/ \E s \in Slots : PublishStockUpdate(s)
  \/ StockUpdateSettles
  \/ \E s \in Slots : Commit(s)
  \/ \E s \in Slots : TransactionFails(s)
  \/ \E s \in Slots : SendToDLQ(s)
  \/ \E s \in Slots : PublishOrderCreated(s)
  \/ \E s \in Slots : PublishEmailNotification(s)
  \/ \E s \in Slots : PublishAuditLog(s)
  \/ \E n \in 1..MaxInstances : ProducerConnects(n)

SpecKafka == Init /\ [][NextKafka]_vars

\* ---------------------------------------------------------------- Kafka producer
\* The process in which the calls of a producer run are made.
CallerModule == "kafkaOrders"

\* The calls that run getProducer, and the events handed to each: none to
\* getProducer, one to publishEvent, an array to publishEvents.
ProducerOps == {"getProducer", "publishEvent", "publishEvents"}

OpEvents(op) ==
  CASE op = "publishEvent" -> {<<Ord1>>}
    [] op = "publishEvents" -> {<<Ord1>>, <<Ord1, Audit1>>, <<Ord1, Ord1>>}
    [] OTHER -> {<<>>}

\* Where a call continues once getProducer has handed it a producer.
AfterGetProducer(op) == IF op = "getProducer" THEN "returned" ELSE "send"

\* getProducer(), called directly, by publishEvent or by publishEvents, up
\* to its first await: with no producer in the module variable one is created,
\* assigned, and its connect() awaited; otherwise the one in the variable is
\* returned.
GetProducer(c, op, events) ==
  /\ calls[c].pc = "idle"
  /\ IF producer[CallerModule] = Null
     THEN /\ Len(instances) < MaxInstances
          /\ instances' = Append(instances, NewProducer)
          /\ producer' = [producer EXCEPT ![CallerModule] = Len(instances) + 1]
          /\ calls' = [calls EXCEPT ![c] = [IdleCall EXCEPT !.op = op, !.events = events,
                                                            !.pc = "connect",
                                                            !.p = Len(instances) + 1]]
     ELSE /\ calls' = [calls EXCEPT ![c] = [IdleCall EXCEPT !.op = op, !.events = events,
                                                            !.pc = AfterGetProducer(op),
                                                            !.p = producer[CallerModule]]]
          /\ UNCHANGED <<producer, instances>>
  /\ UNCHANGED <<config, stock, rowLock, orders, orderItems, published, emails, dedup, faults, inv, inFlight, api>>

\* await producer.connect() resolves; getProducer returns what the module
\* variable holds by then.
ConnectResolves(c) ==
  /\ calls[c].pc = "connect"
  /\ instances' = [instances EXCEPT ![calls[c].p].connect = "done"]
  /\ calls' = [calls EXCEPT ![c].pc = AfterGetProducer(calls[c].op), ![c].p = producer[CallerModule]]
  /\ UNCHANGED <<config, stock, rowLock, orders, orderItems, published, emails, dedup, faults, inv, inFlight, api,
                 producer>>

\* await p.send(record) in publishEvent and publishEvents: the record, with
\* one message for each event, goes out on a usable producer; otherwise send
\* throws and the call rejects.
Send(c) ==
  /\ calls[c].pc = "send"
  /\ published' = IF Usable(calls[c].p)
                  THEN published \cup
                         {[topic |-> Topic("kafkaOrders", Ord1.eventType),
                           event |-> calls[c].events[k], call |-> c, index |-> k]
                            : k \in 1..Len(calls[c].events)}
                  ELSE published
  /\ calls' = [calls EXCEPT ![c].pc = "returned",
                            ![c].outcome = IF Usable(calls[c].p) THEN "sent" ELSE "failed"]
  /\ UNCHANGED <<config, stock, rowLock, orders, orderItems, emails, dedup, faults, inv, inFlight, api,
                 producer, instances>>

\* disconnectProducer() up to its await: with a producer in the module
\* variable its disconnect() is awaited; otherwise the call returns.
DisconnectProducer(c) ==
  /\ calls[c].pc = "idle"
  /\ IF producer[CallerModule] # Null
     THEN /\ instances' = [instances EXCEPT ![producer[CallerModule]].disconnect = "pending"]
          /\ calls' = [calls EXCEPT ![c] = [IdleCall EXCEPT !.op = "disconnectProducer",
                                                            !.pc = "disconnect", !.p = producer[CallerModule]]]
     ELSE /\ calls' = [calls EXCEPT ![c] = [IdleCall EXCEPT !.op = "disconnectProducer",
                                                            !.pc = "returned"]]
          /\ UNCHANGED instances
  /\ UNCHANGED <<config, stock, rowLock, orders, orderItems, published, emails, dedup, faults, inv, inFlight, api,
                 producer>>

\* await producer.disconnect() resolves; the module variable is set to null.
DisconnectResolves(c) ==
  /\ calls[c].pc = "disconnect"
  /\ instances' = [instances EXCEPT ![calls[c].p].disconnect = "done"]
  /\ producer' = [producer EXCEPT ![CallerModule] = Null]
  /\ calls' = [calls EXCEPT ![c].pc = "returned"]
  /\ UNCHANGED <<config, stock, rowLock, orders, orderItems, published, emails, dedup, faults, inv, inFlight, api>>

NextProducer ==
  \/ \E c \in Callers : \E op \in ProducerOps : \E events \in OpEvents(op) :
       GetProducer(c, op, events)
  \/ \E c \in Callers : ConnectResolves(c)
  \/ \E c \in Callers : Send(c)
  \/ \E c \in Callers : DisconnectProducer(c)
  \/ \E c \in Callers : DisconnectResolves(c)

SpecProducer == Init /\ [][NextProducer]_vars

\* ---------------------------------------------------------------- properties
CommandBodies == {"cmd1", "cmd2"}

Active(s) == inv[s].pc # "idle"

Done(s) == inv[s].pc = "done"

\* The order row (if any) that invocation s has committed.
Committed(s) == \E o \in orders : o.id = randomUUID(s, "order", 0)

\* The Order rows created for the command carried by a body.
OrdersFor(body) == {o \in orders : o.userId = JSONparse(body).value.payload.userId}

RECURSIVE QtySum(_, _, _)
QtySum(items, row, k) ==
  IF k = 0 THEN 0
  ELSE QtySum(items, row, k - 1)
       + (IF items[k].productId = row \/ items[k].variationId = row
          THEN items[k].quantity ELSE 0)

\* What one run of the command in a body takes off the stock of a row.
Qty(body, row) ==
  LET items == JSONparse(body).value.payload.items IN QtySum(items, row, Len(items))

Succeeded(body) ==
  \E s \in Slots : Done(s) /\ inv[s].body = body /\ inv[s].status = 200

\* Every delivery of the body but one arrived after the body had been answered
\* with success: a first delivery followed by replays.
ReplayedOnly(body) ==
  Cardinality({s \in Slots : Active(s) /\ inv[s].body = body /\ ~inv[s].replay}) = 1

\* C1: once a delivery of a command.checkout envelope has been answered with
\* success, the command has exactly one Order row and its line items have
\* been taken off the stock exactly once, however often it is delivered.
C1_ReplayKeepsOneOrder ==
  \A body \in CommandBodies :
    (Succeeded(body) /\ ReplayedOnly(body)) =>
      /\ Cardinality(OrdersFor(body)) = 1
      /\ (\A other \in CommandBodies \ {body} : OrdersFor(other) = {}) =>
           \A row \in Rows : stock[row] = InitStock - Qty(body, row)

\* ---- C2
RECURSIVE CommittedQtyUpTo(_, _)
CommittedQtyUpTo(row, n) ==
  IF n = 0 THEN 0
  ELSE CommittedQtyUpTo(row, n - 1) + (IF Committed(n) THEN Qty(inv[n].body, row) ELSE 0)

\* What the committed transactions together have taken off the stock of a row.
CommittedQty(row) == CommittedQtyUpTo(row, MaxDeliveries)

ItemsOf(s) == {it \in orderItems : it.orderId = randomUUID(s, "order", 0)}

\* C2: a checkout transaction in which a statement fails leaves nothing
\* behind: no Order row, no Order Line Item and no stock change of that
\* attempt is ever visible.  Stock differs from its initial value by exactly
\* the quantities of the committed transactions, line items exist only
\* together with their order and completely, and an attempt that failed has
\* neither.
C2_FailedTransactionLeavesNothing ==
  /\ \A row \in Rows : stock[row] = InitStock - CommittedQty(row)
  /\ \A s \in Slots :
       /\ ~Committed(s) => ItemsOf(s) = {}
       /\ Committed(s) => ItemsOf(s) = OrderItemValues(s, inv[s])
       /\ (Done(s) /\ inv[s].failure = "transaction") => ~Committed(s)

\* A transaction failed while working on its second line item, after the first
\* item's decrements, and another transaction has committed.
C2_Witness ==
  \E s, t \in Slots :
    /\ Done(s) /\ inv[s].failure = "transaction" /\ inv[s].idx = 2
    /\ Committed(t)

\* ---- C3
\* C3: a delivery whose checkout transaction failed with a transient database
\* error (connection refused, lock timeout) is answered with a 5xx status.
C3_TransientDbErrorAsksRetry ==
  \A s \in Slots :
    (Done(s) /\ inv[s].failure = "transaction") => inv[s].status \in 500..599

C3_Witness ==
  \E s \in Slots :
    /\ Done(s) /\ inv[s].failure = "transaction" /\ inv[s].idx >= 1
    /\ inv[s].consumer = "commands"
    /\ inv[s].status = 500

\* ---- C4
NoSideEffect ==
  /\ orders = {}
  /\ orderItems = {}
  /\ published = {}
  /\ emails = <<>>
  /\ dedup = {}
  /\ stock = [r \in Rows |-> InitStock]

\* C4: a request whose body is not a JSON envelope is answered with a
\* non-retry status (never a 5xx) by every consumer, and no handler runs.
C4_MalformedBodyIsPermanent ==
  \A s \in Slots :
    (Active(s) /\ inv[s].body \in NonJsonBodies) =>
      /\ Done(s)
      /\ inv[s].status < 500
      /\ NoSideEffect

\* ---- C5
BothKeysConfigured ==
  config.currentSigningKey # Unset /\ config.nextSigningKey # Unset

\* The header carries a token of the current or of the next key, made over
\* exactly the body that was posted.
SignedByCurrentOrNext(s) ==
  /\ inv[s].signature.body = inv[s].body
  /\ inv[s].signature.key \in {"kCur", "kNext"}

\* The request got past verification and parsing.
PassedGate(s) == Active(s) /\ inv[s].failure \notin {"verifier", "parse"}

\* The event types a consumer's dispatch names.
RecognizedTypes(consumer) ==
  CASE consumer \in {"commands"} -> {"command.checkout"}
    [] consumer \in {"ordersWebhook", "ordersService"} -> {"command.checkout", "order.created"}
    [] consumer = "orders" -> {"order.created"}
    [] consumer \in EmailConsumers -> {"notification.email"}
    [] consumer \in {"inventory", "inventoryWebhook", "inventoryService"} ->
         {"inventory.stock.updated"}
    [] OTHER -> {"analytics.audit"}

\* The body is an envelope of a type the consumer's dispatch names.
RecognizedEnvelope(s) ==
  /\ JSONparse(inv[s].body).ok
  /\ JSONparse(inv[s].body).value.eventType \in RecognizedTypes(inv[s].consumer)

\* C5: with both signing keys configured, a request that is not signed with
\* the current or the next key over its raw body (tampered body, foreign key,
\* no header) is answered 401 and changes nothing; an envelope the consumer
\* handles, signed with the next key, is accepted: it passes the verifier and
\* is not answered with a 4xx.
C5_OnlyVerifiedRequestsAreHandled ==
  BothKeysConfigured =>
    \A s \in Slots :
      /\ (Active(s) /\ ~SignedByCurrentOrNext(s)) =>
           /\ Done(s)
           /\ inv[s].status = 401
           /\ NoSideEffect
      /\ (Active(s) /\ inv[s].signature = [key |-> "kNext", body |-> inv[s].body]
            /\ RecognizedEnvelope(s)) =>
           /\ PassedGate(s)
           /\ Done(s) => inv[s].status \notin 400..499

\* ---- C6
\* C6: every rejection by the signature verifier (header missing, no key
\* matches, keys not configured) is answered with a 4xx status.
C6_VerifierRejectionIsPermanent ==
  \A s \in Slots :
    (Done(s) /\ inv[s].failure = "verifier") => inv[s].status \in 400..499

\* ---- C7
KeyMissing ==
  config.currentSigningKey = Unset \/ config.nextSigningKey = Unset

\* C7: with a signing key missing, verifyQStashSignature lets a request through
\* unverified only under NODE_ENV = development; in any other mode its
\* consumers reject every request and nothing is handled.  No consumer at all
\* handles an unverified request outside development.
C7_UnconfiguredKeysFailClosed ==
  KeyMissing =>
    \A s \in Slots :
      /\ (Active(s) /\ inv[s].consumer \in LibConsumers
            /\ config.nodeEnv # "development") =>
           /\ Done(s)
           /\ inv[s].failure = "verifier"
           /\ inv[s].status \notin 200..299
           /\ NoSideEffect
      /\ (PassedGate(s) /\ ~SignedByCurrentOrNext(s)) =>
           /\ config.nodeEnv = "development"
           /\ inv[s].consumer \in LibConsumers

\* An unsigned checkout was processed to the end in development mode.
C7_Witness ==
  \E s \in Slots :
    /\ KeyMissing /\ config.nodeEnv = "development"
    /\ inv[s].signature = NoSignature
    /\ inv[s].consumer = "commands"
    /\ Done(s) /\ inv[s].status = 200
    /\ Committed(s)

\* ---- C8
\* C8: an envelope that got past the verifier and whose type the consumer's
\* dispatch does not name is acknowledged as a no-op: nothing changes and the
\* answer is not a 5xx.
C8_UnknownTypeIsAcknowledged ==
  \A s \in Slots :
    (/\ PassedGate(s)
     /\ JSONparse(inv[s].body).ok
     /\ ~RecognizedEnvelope(s)) =>
      /\ NoSideEffect
      /\ Done(s) => inv[s].status < 500

\* ---- C9
\* C9: a delivery that QStash retries because a post-commit publish of the
\* earlier delivery failed does not run the transaction again.
C9_PublishFailureDoesNotRerunTransaction ==
  \A s \in Slots :
    (inv[s].retryOf # 0 /\ Committed(inv[s].retryOf)) => ~Committed(s)

\* ---- C10
OrderIdOf(e) ==
  CASE e.eventType = "analytics.audit" -> e.payload.entityId
    [] OTHER -> e.payload.orderId

\* C10: every derived event that has been published refers to an order whose
\* transaction has committed.
C10_PublishOnlyAfterCommit ==
  \A m \in published : \E o \in orders : o.id = OrderIdOf(m.event)

\* ---- C11
\* C11: the stock of every product and of every variation is at least zero in
\* every reachable state, with checkout requests being validated and checkout
\* commands being processed in any interleaving.
C11_StockNeverNegative ==
  \A row \in Rows : stock[row] >= 0

\* ---- C12
AllDone == \A s \in Slots : Done(s) /\ inv[s].status = 200

\* C12: MaxDeliveries concurrent commands for the same product, OrderQty pieces
\* each, with stock MaxDeliveries * OrderQty: the stock is never negative, an
\* invocation that has not answered can always go on or waits for a row lock
\* that another one will release, and when all have answered the stock is 0
\* and every command has exactly one Order row.
C12_ConcurrentCheckoutsLoseNoUpdate ==
  /\ \A row \in Rows : stock[row] >= 0
  /\ AllDone \/ ENABLED NextConcurrent
  /\ AllDone =>
       /\ stock["pA"] = 0
       /\ stock["vA1"] = 0
       /\ Cardinality(orders) = MaxDeliveries
       /\ \A n \in Slots : Cardinality(OrdersFor(SameBodies[n])) = 1

\* Two transactions are open at once, one waiting for the row the other holds.
C12_Witness ==
  \E s, t \in Slots :
    /\ s # t
    /\ inv[s].pc = "updateProduct" /\ rowLock["vA1"] = s
    /\ inv[t].pc = "updateVariation"

\* ---- C13
\* C13: when an invocation handling a command.checkout is killed and QStash
\* redelivers the envelope, no partial order exists (line items only together
\* with their committed order, and completely) and the killed delivery and its
\* retry together leave at most one Order row and one decrement.
C13_KilledAndRetriedIsSafe ==
  \A s \in Slots :
    /\ ~Committed(s) => ItemsOf(s) = {}
    /\ Committed(s) => ItemsOf(s) = OrderItemValues(s, inv[s])
    /\ (inv[s].retryOf # 0 /\ inv[inv[s].retryOf].failure = "killed") =>
         ~(Committed(s) /\ Committed(inv[s].retryOf))

\* ---- C14
\* The mails sent for an envelope id.
EmailsFor(eventId) == {k \in 1..Len(emails) : emails[k].entityId = eventId}

\* A delivery whose handler ran to the end without an error.
HandledOk(s) ==
  Done(s) /\ inv[s].status = 200 /\ inv[s].failure = "none" /\ ~inv[s].duplicate

\* C14: an idempotency record exists only for an envelope whose handler has
\* completed successfully in some delivery (the mail was sent); a delivery is
\* short-circuited as a duplicate only when such a record exists, so after a
\* failed handling a redelivery runs the handler again.
C14_RecordOnlyAfterSuccess ==
  /\ \A e \in dedup :
       /\ EmailsFor(e) # {}
       /\ \E s \in Slots : HandledOk(s) /\ Event(inv[s]).eventId = e
  /\ \A s \in Slots :
       inv[s].duplicate => Event(inv[s]).eventId \in dedup

\* The handler failed (mail transport), no record was written, and the retry
\* of that delivery ran the handler and wrote the record.
C14_Witness ==
  \E s, t \in Slots :
    /\ Done(t) /\ inv[t].failure = "email" /\ inv[t].status = 500
    /\ inv[s].retryOf = t
    /\ HandledOk(s)
    /\ Event(inv[s]).eventId \in dedup

\* ---- C15
\* C15: a delivery that the store reports as seen is answered 200 with the
\* duplicate marker without the handler running: the step that finds the
\* record changes no order, stock, mail, published event or record.
C15_DuplicateIsShortCircuited ==
  /\ [](\A s \in Slots :
          inv[s].duplicate =>
            /\ Done(s)
            /\ inv[s].status = 200
            /\ Event(inv[s]).eventId \in dedup)
  /\ [][\A s \in Slots :
          (~inv[s].duplicate /\ inv'[s].duplicate) =>
            /\ inv[s].pc = "isEventProcessed"
            /\ UNCHANGED <<stock, orders, orderItems, published, emails, dedup>>]_vars

\* A redelivery was answered as a duplicate after the first delivery succeeded.
C15_Witness ==
  \E s, t \in Slots :
    /\ HandledOk(t)
    /\ Done(s) /\ inv[s].duplicate /\ inv[s].status = 200
    /\ inv[s].body = inv[t].body
    /\ Len(emails) = 1

\* ---- C16
HandlerFailures == {"email", "publish", "template", "unknownType"}

\* C16: a failure of the idempotency store never shows in the response of
\* the Notifications consumer: a delivery past the verifier is answered 200 exactly
\* when its handler did not fail, and every error response names a failure of
\* the handler.
C16_StoreFailureDoesNotBlock ==
  \A s \in Slots :
    (Done(s) /\ PassedGate(s) /\ inv[s].consumer = "notifications") =>
      /\ inv[s].failure \in {"none"} \cup HandlerFailures
      /\ inv[s].status = 200 <=> inv[s].failure = "none"

\* The store was unreachable for the lookup and for the write: the handler
\* ran twice for one envelope, both deliveries were answered 200 and no
\* record exists.
C16_Witness ==
  \E s, t \in Slots :
    /\ s # t
    /\ HandledOk(s) /\ HandledOk(t)
    /\ inv[s].body = inv[t].body
    /\ Cardinality(EmailsFor(Event(inv[s]).eventId)) = 2
    /\ dedup = {}

\* ---- C17
\* The dead-letter events published for the event invocation s worked on.
DeadLetters(s) ==
  {m \in published : /\ m.event.eventType = "analytics.dlq"
                     /\ m.event.payload.originalEvent = Event(inv[s])}

\* The handler of invocation s threw and the consumer has finished with the
\* message.
HandlerFailedDone(s) ==
  Done(s) /\ inv[s].failure \in {"transaction", "publish"}

\* C17: a paid order whose handler fails is never silently dropped: whenever
\* a consumer has finished with a message whose handler threw, it has either
\* signalled a retry to the transport (a 5xx, a rejected eachMessage) or a
\* dead-letter event for that message has been published.
C17_FailedHandlingIsNeverDropped ==
  \A s \in Slots :
    HandlerFailedDone(s) => (inv[s].status >= 500 \/ DeadLetters(s) # {})

\* ---- C18
\* The stock left by the messages handled before s does not cover the
\* quantities of the checkout command invocation s works on.
Short(s) ==
  /\ Active(s)
  /\ inv[s].consumer = "kafkaOrders"
  /\ HeaderEventType(inv[s].body) = "command.checkout"
  /\ \E row \in Rows :
       Qty(inv[s].body, row) > InitStock - CommittedQtyUpTo(row, s - 1)

\* C18: a checkout command for more than the stock holds is rolled back in
\* its transaction (no Order row of it is ever committed), and once the
\* consumer is done with it exactly one dead-letter event carrying the
\* original command has been published to the analytics topic and the
\* message is not delivered again.
C18_ShortStockIsDeadLettered ==
  \A s \in Slots :
    Short(s) =>
      /\ ~Committed(s)
      /\ Done(s) =>
           /\ Cardinality(DeadLetters(s)) = 1
           /\ \A m \in DeadLetters(s) : m.topic = "ecom.analytics"
           /\ inv[s].status = 200
           /\ \A t \in Slots : inv[t].retryOf # s

\* ---- C19
\* The events of a kind that invocation s has published.
EventsOf(s, kind) ==
  {m \in published : m.event.eventType = kind /\ m.event.eventId[1] = s}

\* Invocation s handled a checkout command and answered with success.
ProcessedOk(s) ==
  /\ Done(s)
  /\ inv[s].status = 200
  /\ inv[s].failure = "none"
  /\ JSONparse(inv[s].body).ok
  /\ Event(inv[s]).eventType = "command.checkout"

\* No publish started by invocation s is still in flight.
Settled(s) == \A m \in inFlight : m.event.eventId[1] # s

\* C19: a command.checkout with n line items that was processed with success
\* has published, once the publishes it started have settled, exactly one
\* order.created, one notification.email, one analytics.audit and n
\* inventory.stock.updated events, and each of them carries the command's
\* correlation id (its eventId when it has none).
C19_SuccessPublishesAllEvents ==
  \A s \in Slots :
    (ProcessedOk(s) /\ Settled(s)) =>
      /\ Cardinality(EventsOf(s, "order.created")) = 1
      /\ Cardinality(EventsOf(s, "notification.email")) = 1
      /\ Cardinality(EventsOf(s, "analytics.audit")) = 1
      /\ Cardinality(EventsOf(s, "inventory.stock.updated")) = Len(Items(inv[s]))
      /\ \A m \in published :
           m.event.eventId[1] = s => m.event.correlationId = CorrelationId(Event(inv[s]))

\* ---- C20
\* The Order rows invocation s has created.
OrdersOf(s) == {o \in orders : o.id[1] = s}

\* C20: a command.checkout that was processed with success has exactly one
\* Order, with status PENDING, and one Order Line Item per item of the
\* command with the command's productId, variationId, quantity and price; and
\* the step that commits its transaction takes each item's quantity off the
\* stock of the item's product and of its variation, and nothing else.
C20_SuccessCreatesOrderAndReducesStock ==
  /\ [](\A s \in Slots :
         ProcessedOk(s) =>
           /\ Cardinality(OrdersOf(s)) = 1
           /\ \A o \in OrdersOf(s) : /\ o.status = "PENDING"
                                      /\ o.userId = Event(inv[s]).payload.userId
                                      /\ o.totalAmount = Event(inv[s]).payload.totalAmount
           /\ Cardinality(ItemsOf(s)) = Len(Items(inv[s]))
           /\ \A k \in 1..Len(Items(inv[s])) :
                \E it \in ItemsOf(s) : /\ it.productId = Items(inv[s])[k].productId
                                       /\ it.variationId = Items(inv[s])[k].variationId
                                       /\ it.quantity = Items(inv[s])[k].quantity
                                       /\ it.price = Items(inv[s])[k].price)
  /\ [][\A s \in Slots :
         (inv[s].pc = "commit" /\ inv'[s].pc = "publishOrderCreated") =>
           \A row \in Rows : stock'[row] = stock[row] - Qty(inv[s].body, row)]_vars

\* A command with two line items, one of them with a variation, has been
\* processed with success: its order and both line items exist and the stock
\* of every row is down by the command's quantities.
C20_Witness ==
  \E s \in Slots :
    /\ ProcessedOk(s)
    /\ Len(Items(inv[s])) > 1
    /\ \E k \in 1..Len(Items(inv[s])) : Items(inv[s])[k].variationId # NoVariation
    /\ Cardinality(ItemsOf(s)) = Len(Items(inv[s]))
    /\ \A row \in Rows : stock[row] = InitStock - Qty(inv[s].body, row)

\* ---- C21
\* The receiver of the deployment accepts the header of the request for the
\* raw body of the request.
Verified(s) ==
  ReceiverVerify(config.currentSigningKey, config.nextSigningKey,
                 inv[s].signature, inv[s].body)

\* C21: the webhook of every service verifies the signature before anything
\* else: under any configuration of keys and mode, a request whose signature
\* the receiver does not accept is answered 401 by the verifier and changes
\* nothing, so whatever a service handles or answers with success was verified.
C21_ServicesHandleOnlyVerifiedRequests ==
  \A s \in Slots :
    (Active(s) /\ inv[s].consumer \in ServiceEndpoints) =>
      /\ ~Verified(s) =>
           /\ Done(s)
           /\ inv[s].status = 401
           /\ inv[s].failure = "verifier"
           /\ NoSideEffect
      /\ (~Done(s) \/ inv[s].status \in 200..299) => Verified(s)

\* ---- C22
\* The type begins with the characters of the domain prefix.
HasPrefix(eventType, prefix) ==
  /\ Len(Chars(eventType)) >= Len(Chars(prefix))
  /\ SubSeq(Chars(eventType), 1, Len(Chars(prefix))) = Chars(prefix)

\* C22: the router is total: every event handed to it is published to one
\* of the five targets, a type that begins with command., order.,
\* notification. or inventory. to the commands, orders, notifications or
\* inventory target of its producer, and every other type to analytics.
C22_RouterIsTotalByPrefix ==
  \A m \in published :
    LET t == m.event.eventType
        topics == TOPICS(m.event.source)
    IN  /\ HasPrefix(t, "command.") => m.topic = topics.COMMANDS
        /\ HasPrefix(t, "order.") => m.topic = topics.ORDERS
        /\ HasPrefix(t, "notification.") => m.topic = topics.NOTIFICATIONS
        /\ HasPrefix(t, "inventory.") => m.topic = topics.INVENTORY
        /\ (\A prefix \in {"command.", "order.", "notification.", "inventory."} :
              ~HasPrefix(t, prefix)) => m.topic = topics.ANALYTICS

\* An event of an unmapped type whose name contains a domain prefix further
\* in has been routed to analytics, and a command has been routed as well.
C22_Witness ==
  /\ \E m \in published : m.event.eventType = "preorder.created" /\ m.topic = "analytics"
  /\ \E m \in published : m.event.eventType = "command.checkout"

\* ---- C23
\* C23: every message of a batch reaches the transport with its own
\* configured retry count and delay: the values a single publish of the same
\* message with the same options hands over.
C23_BatchKeepsRetryAndDelay ==
  \A m \in published :
    m.via = "batch" =>
      LET c == [eventType |-> m.event.eventType, retries |-> m.configured.retries,
                delay |-> m.configured.delay]
      IN  /\ m.retries = PublishEventMessage(c).retries
          /\ m.delay = PublishEventMessage(c).delay

\* ---- C24
\* The processor of processWithDeduplication has been entered by invocation s.
RanProcessor(s) ==
  /\ Active(s)
  /\ inv[s].consumer = "notifications"
  /\ PassedGate(s)
  /\ inv[s].pc # "isEventProcessed"
  /\ ~inv[s].duplicate

\* C24: with the store available, however the deliveries of one envelope id
\* interleave, the processor runs to the end for at most one of them and its
\* mail is sent at most once.
C24_ProcessorRunsAtMostOnce ==
  \A r \in DedupRequests :
    /\ Cardinality({s \in Slots : /\ RanProcessor(s)
                                  /\ inv[s].body = r.body
                                  /\ inv[s].failure = "none"}) <= 1
    /\ Cardinality(EmailsFor(JSONparse(r.body).value.eventId)) <= 1

\* ---- C27
\* C27: with the store available and the deliveries of an envelope handled
\* one after another, the mail of a notification.email envelope goes out at
\* most once, whatever the audit publish and the redeliveries do.
C27_EmailSentAtMostOnce ==
  \A r \in DedupRequests :
    Cardinality({k \in 1..Len(emails) :
                   emails[k].entityId = JSONparse(r.body).value.eventId}) <= 1

\* ---- C25
\* Two published events are the same logical event: they have the same type,
\* stem from the same call site and iteration of the handler, and their
\* invocations handled the same command.
SameLogicalEvent(m, n) ==
  /\ m.event.eventType = n.event.eventType
  /\ m.event.eventId[2] = n.event.eventId[2]
  /\ m.event.eventId[3] = n.event.eventId[3]
  /\ inv[m.event.eventId[1]].body = inv[n.event.eventId[1]].body

\* C25: when the handler runs more than once for a command, every derived
\* event (order.created, notification.email, inventory.stock.updated,
\* analytics.audit) is published with the eventId it had in the earlier run.
C25_ReplaysReuseEventId ==
  \A m, n \in published :
    SameLogicalEvent(m, n) => m.event.eventId = n.event.eventId

\* ---- C26
PostCommitPcs == {"publishOrderCreated", "publishEmailNotification", "publishAuditLog"}

\* The step in which an awaited publish of invocation s fails.
PublishFailsIn(s) ==
  /\ inv[s].pc \in PostCommitPcs
  /\ inv'[s].pc = "done"
  /\ inv'[s].failure = "publish"

\* C26: a failed post-commit publish does not keep the sibling publishes from
\* being attempted (the handler ends on a failed publish only when that
\* publish was the last one), and its answer differs from the answer given
\* to a failed transaction.
C26_PublishFailureIsIsolated ==
  [][\A s \in Slots :
       PublishFailsIn(s) =>
         /\ inv[s].pc = "publishAuditLog"
         /\ \A message \in DbErrors :
              inv'[s].status # HandlerFailed(inv[s], message, "transaction").status]_vars

\* ---- C28
\* The step in which the transaction of invocation s commits.
Commits(s) == inv[s].pc = "commit" /\ inv'[s].pc = "publishOrderCreated"

\* The inventory.stock.updated events of invocation s: those published and
\* those whose publish is still in flight.
StockUpdatesOf(s) ==
  {m.event : m \in {n \in published \cup inFlight :
                       /\ n.event.eventType = "inventory.stock.updated"
                       /\ n.event.eventId[1] = s}}

\* C28: every inventory.stock.updated event of a checkout reports as
\* previousStock and newStock the stock of the product row right before and
\* right after the commit that decrements it (the commands have one line
\* item per product), also with other checkouts of the product in flight.
C28_StockEventMatchesCommittedDecrement ==
  [][\A s \in Slots :
       Commits(s) =>
         \A e \in StockUpdatesOf(s) :
           /\ e.payload.previousStock = stock[e.payload.productId]
           /\ e.payload.newStock = stock'[e.payload.productId]]_vars

\* ---- C29
\* C29: a failure raised by the handler, after verifyQStashSignature has
\* returned, is answered 500 and never 401.
C29_HandlerFailureIsNever401 ==
  \A s \in Slots :
    (Done(s) /\ PassedGate(s) /\ inv[s].failure \in HandlerFailures) =>
      inv[s].status = 500

\* ---- C30
\* The step in which getProducer hands a producer to call c.
GetProducerReturns(c) ==
  /\ calls[c].pc \in {"idle", "connect"}
  /\ calls'[c].op \in ProducerOps
  /\ calls'[c].pc \in {"send", "returned"}

\* C30: under every interleaving of getProducer, publishEvent and
\* disconnectProducer calls at most one producer exists at a time (created,
\* its disconnect() not resolved), and what getProducer returns is a producer
\* whose connect() has resolved.
C30_OneProducerReturnedConnected ==
  [][/\ Cardinality({n \in 1..Len(instances') : instances'[n].disconnect # "done"}) <= 1
     /\ \A c \in Callers :
          GetProducerReturns(c) =>
            /\ calls'[c].p # Null
            /\ instances'[calls'[c].p].connect = "done"]_vars
====
